---- MODULE Spec2Model ----
(***************************************************************************)
(* Sovereign Signal Protocol (fractalnode/signal): the capsule/frame       *)
(* builder, the HLR/VLR registry over the in-memory transport, and the     *)
(* five protocol operations wake, handoff, roam, home and keepalive.       *)
(*                                                                         *)
(* Timestamps are milliseconds since the epoch (toISOString and            *)
(* new Date(s).getTime() are inverse on them).  SHA-256 over the canonical *)
(* JSON is modelled as collision free: the hash of a canonical object is   *)
(* the one-element tuple holding that object, and the 64-zero genesis hash *)
(* is the empty tuple.  randomId is modelled by the counter rnd in the     *)
(* protocol specification (every draw is fresh) and by a free choice from  *)
(* a small set in the capsule specification (draws may collide).           *)
(***************************************************************************)
EXTENDS Naturals, Sequences, FiniteSets, TLC

VARIABLES
    frames,     \* MemoryTransport.frames: key -> stored record
    messages,   \* MemoryTransport.messages: did -> queue of messages
    now,        \* Date.now(), in ms
    rnd,        \* number of randomId draws made so far
    cur,        \* the frame the caller holds (<<>> before the first wake)
    res,        \* the result object of the last protocol call
    nops,       \* number of protocol calls made
    nenv,       \* number of other events (clock, senders, direct registry calls)
    chain,      \* capsule specification: the frames built so far
    probe,      \* capsule specification: the last frame edited after it was built
    procs,      \* concurrent callers: each process's position and local values
    files,      \* FileTransport: did -> directory of message files (name -> message)
    sent        \* did -> the messages sent to it since its queue was last cleared

vars == <<frames, messages, now, rnd, cur, res, nops, nenv, chain, probe,
          procs, files, sent>>

-----------------------------------------------------------------------------
(* Bounds of the model *)

MaxSteps == 4
MaxChain == 3

-----------------------------------------------------------------------------
(* Program constants *)

DEFAULT_SESSION_TTL_SECONDS == 86400

SSP_VERSION == "1.0.0"

ZeroHash == <<>>

STORAGE_KEYS == [hlr |-> "hlr", vlr |-> "vlr", frame |-> "frame", latest |-> "latest"]

-----------------------------------------------------------------------------
(* Inputs *)

DIDs == {"did:a"}

NodeIds == {"n1", "n2"}

Identity(d) ==
    [did |-> d, publicKey |-> d, handle |-> d, credentialTokenId |-> d, address |-> d]

Node(n) ==
    [nodeId |-> n, nodeName |-> n,
     nodeType |-> IF n = "n1" THEN "local" ELSE "cloud",
     endpoint |-> n, capabilities |-> <<"ssp">>]

\* The updates objects handed to handoff: none, the one of the unit tests,
\* and one setting all nine fields.
UpdatesList ==
    << <<>>,
       [stage |-> "nascent", continuityScore |-> 30],
       [stage |-> "growing", continuityState |-> "developing",
        continuityScore |-> 35, level |-> 2,
        coreValues |-> <<"truth">>, coreInterests |-> <<"signals">>,
        recentThemes |-> <<"sovereignty">>, openThreads |-> <<"volume">>,
        priorities |-> <<"report">>] >>

\* { ...a, ...b } on objects
Merge(a, b) ==
    [k \in DOMAIN a \cup DOMAIN b |-> IF k \in DOMAIN b THEN b[k] ELSE a[k]]

\* a ?? b on an optional field of an object
Coalesce(obj, field, default) ==
    IF field \in DOMAIN obj THEN obj[field] ELSE default

-----------------------------------------------------------------------------
(* capsule.ts *)

computeFrameHash(frame) ==
    << [version |-> frame.version,
        frameType |-> frame.frameType,
        identity |-> frame.identity,
        node |-> frame.node,
        sessionToken |-> [token |-> frame.sessionToken.token,
                          did |-> frame.sessionToken.did,
                          nodeId |-> frame.sessionToken.nodeId,
                          sequenceNumber |-> frame.sessionToken.sequenceNumber],
        bootCount |-> frame.bootCount,
        stage |-> frame.stage,
        continuityState |-> frame.continuityState,
        continuityScore |-> frame.continuityScore,
        level |-> frame.level,
        coreValues |-> frame.coreValues,
        coreInterests |-> frame.coreInterests,
        recentThemes |-> frame.recentThemes,
        openThreads |-> frame.openThreads,
        priorities |-> frame.priorities,
        parentHash |-> frame.parentHash,
        createdAt |-> frame.createdAt] >>

verifyFrameHash(frame) ==
    computeFrameHash(frame) = frame.frameHash

createSessionToken(token, t, did, nodeId, sequenceNumber) ==
    [token |-> token,
     did |-> did,
     nodeId |-> nodeId,
     sequenceNumber |-> sequenceNumber,
     issuedAt |-> t,
     expiresAt |-> t + DEFAULT_SESSION_TTL_SECONDS * 1000]

\* Mutant of isTokenExpired: no token ever expires.
isTokenExpiredNever(token, t) ==
    FALSE

isTokenExpired(token, t) ==
    token.expiresAt < t

\* params carries the required fields; the optional ones default as in the code.
buildFrame(params, t) ==
    LET partial ==
            [version |-> SSP_VERSION,
             frameType |-> params.frameType,
             identity |-> params.identity,
             node |-> params.node,
             sessionToken |-> params.sessionToken,
             bootCount |-> params.bootCount,
             stage |-> params.stage,
             continuityState |-> params.continuityState,
             continuityScore |-> params.continuityScore,
             level |-> params.level,
             coreValues |-> Coalesce(params, "coreValues", <<>>),
             coreInterests |-> Coalesce(params, "coreInterests", <<>>),
             recentThemes |-> Coalesce(params, "recentThemes", <<>>),
             openThreads |-> Coalesce(params, "openThreads", <<>>),
             priorities |-> Coalesce(params, "priorities", <<>>),
             pendingMessages |-> Coalesce(params, "pendingMessages", <<>>),
             parentHash |-> Coalesce(params, "parentHash", ZeroHash),
             createdAt |-> t,
             expiresAt |-> t + DEFAULT_SESSION_TTL_SECONDS * 1000]
    IN  Merge(partial, [frameHash |-> computeFrameHash(partial)])

\* Mutant of genesisFrame: the first sequence number is 0.
genesisFrameSeqZero(identity, node, token, t) ==
    buildFrame([frameType |-> "boot",
                identity |-> identity,
                node |-> node,
                sessionToken |-> createSessionToken(token, t, identity.did, node.nodeId, 0),
                bootCount |-> 1,
                stage |-> "void",
                continuityState |-> "genesis",
                continuityScore |-> 0,
                level |-> 0,
                parentHash |-> ZeroHash], t)

genesisFrame(identity, node, token, t) ==
    buildFrame([frameType |-> "boot",
                identity |-> identity,
                node |-> node,
                sessionToken |-> createSessionToken(token, t, identity.did, node.nodeId, 1),
                bootCount |-> 1,
                stage |-> "void",
                continuityState |-> "genesis",
                continuityScore |-> 0,
                level |-> 0,
                parentHash |-> ZeroHash], t)

\* Mutant of handoffFrame: the new frame is chained to the parent of the
\* current frame instead of the current frame.
handoffFrameStaleParent(currentFrame, node, updates, token, t) ==
    LET nextSequence == currentFrame.sessionToken.sequenceNumber + 1
        sessionToken ==
            createSessionToken(token, t, currentFrame.identity.did, node.nodeId, nextSequence)
    IN  buildFrame([frameType |-> "handoff",
                    identity |-> currentFrame.identity,
                    node |-> node,
                    sessionToken |-> sessionToken,
                    bootCount |-> currentFrame.bootCount,
                    stage |-> Coalesce(updates, "stage", currentFrame.stage),
                    continuityState |->
                        Coalesce(updates, "continuityState", currentFrame.continuityState),
                    continuityScore |->
                        Coalesce(updates, "continuityScore", currentFrame.continuityScore),
                    level |-> Coalesce(updates, "level", currentFrame.level),
                    coreValues |-> Coalesce(updates, "coreValues", currentFrame.coreValues),
                    coreInterests |->
                        Coalesce(updates, "coreInterests", currentFrame.coreInterests),
                    recentThemes |->
                        Coalesce(updates, "recentThemes", currentFrame.recentThemes),
                    openThreads |-> Coalesce(updates, "openThreads", currentFrame.openThreads),
                    priorities |-> Coalesce(updates, "priorities", currentFrame.priorities),
                    pendingMessages |-> currentFrame.pendingMessages,
                    parentHash |-> currentFrame.parentHash], t)

handoffFrame(currentFrame, node, updates, token, t) ==
    LET nextSequence == currentFrame.sessionToken.sequenceNumber + 1
        sessionToken ==
            createSessionToken(token, t, currentFrame.identity.did, node.nodeId, nextSequence)
    IN  buildFrame([frameType |-> "handoff",
                    identity |-> currentFrame.identity,
                    node |-> node,
                    sessionToken |-> sessionToken,
                    bootCount |-> currentFrame.bootCount,
                    stage |-> Coalesce(updates, "stage", currentFrame.stage),
                    continuityState |->
                        Coalesce(updates, "continuityState", currentFrame.continuityState),
                    continuityScore |->
                        Coalesce(updates, "continuityScore", currentFrame.continuityScore),
                    level |-> Coalesce(updates, "level", currentFrame.level),
                    coreValues |-> Coalesce(updates, "coreValues", currentFrame.coreValues),
                    coreInterests |->
                        Coalesce(updates, "coreInterests", currentFrame.coreInterests),
                    recentThemes |->
                        Coalesce(updates, "recentThemes", currentFrame.recentThemes),
                    openThreads |-> Coalesce(updates, "openThreads", currentFrame.openThreads),
                    priorities |-> Coalesce(updates, "priorities", currentFrame.priorities),
                    pendingMessages |-> currentFrame.pendingMessages,
                    parentHash |-> currentFrame.frameHash], t)

keepaliveFrame(currentFrame, node, t) ==
    buildFrame([frameType |-> "keepalive",
                identity |-> currentFrame.identity,
                node |-> node,
                sessionToken |-> currentFrame.sessionToken,
                bootCount |-> currentFrame.bootCount,
                stage |-> currentFrame.stage,
                continuityState |-> currentFrame.continuityState,
                continuityScore |-> currentFrame.continuityScore,
                level |-> currentFrame.level,
                coreValues |-> currentFrame.coreValues,
                coreInterests |-> currentFrame.coreInterests,
                recentThemes |-> currentFrame.recentThemes,
                openThreads |-> currentFrame.openThreads,
                priorities |-> currentFrame.priorities,
                pendingMessages |-> currentFrame.pendingMessages,
                parentHash |-> currentFrame.frameHash], t)

-----------------------------------------------------------------------------
(* transport.ts: MemoryTransport.  A read that finds nothing returns null, *)
(* modelled as the empty tuple; a read that finds v returns <<v>>.         *)

write(store, key, frame) ==
    [k \in DOMAIN store \cup {key} |-> IF k = key THEN frame ELSE store[k]]

read(store, key) ==
    IF key \in DOMAIN store THEN <<store[key]>> ELSE <<>>

delete(store, key) ==
    [k \in DOMAIN store \ {key} |-> store[k]]

exists(store, key) ==
    key \in DOMAIN store

sendMessage(queues, to, message) ==
    LET queue == IF to \in DOMAIN queues THEN queues[to] ELSE <<>>
    IN  [k \in DOMAIN queues \cup {to} |->
            IF k = to THEN Append(queue, message) ELSE queues[k]]

transportReceiveMessages(queues, did) ==
    IF did \in DOMAIN queues THEN queues[did] ELSE <<>>

clearMessages(queues, did) ==
    [k \in DOMAIN queues \ {did} |-> queues[k]]

-----------------------------------------------------------------------------
(* registry.ts *)

\* Mutant of hlrKey: one HomeRecord key for every identity.
hlrKeyShared(did) == STORAGE_KEYS.hlr \o ":"

hlrKey(did) == STORAGE_KEYS.hlr \o ":" \o did

vlrKey(nodeId, did) == STORAGE_KEYS.vlr \o ":" \o nodeId \o ":" \o did

frameKey(did, sequence) == STORAGE_KEYS.frame \o ":" \o did \o ":" \o ToString(sequence)

latestKey(did) == STORAGE_KEYS.latest \o ":" \o did

createHomeRecord(identity, homeNodeId, t) ==
    [identity |-> identity,
     homeNodeId |-> homeNodeId,
     stage |-> "void",
     continuityState |-> "genesis",
     continuityScore |-> 0,
     level |-> 0,
     totalXP |-> 0,
     totalReflections |-> 0,
     totalWitnesses |-> 0,
     totalPoc |-> 0,
     cgtBalance |-> 0,
     memoryChainHeight |-> 0,
     coreValues |-> <<>>,
     coreInterests |-> <<>>,
     communicationStyle |-> <<>>,
     bootCount |-> 0,
     lastCapsuleHash |-> ZeroHash,
     updatedAt |-> t,
     createdAt |-> t]

writeHomeRecord(store, record) ==
    write(store, hlrKey(record.identity.did), record)

readHomeRecord(store, did) ==
    read(store, hlrKey(did))

\* Mutant of updateHomeRecord: the updates are merged last, over identity,
\* createdAt and updatedAt.
updateHomeRecordTrusting(store, did, updates, t) ==
    LET record == readHomeRecord(store, did)
    IN  IF record = <<>>
        THEN store
        ELSE writeHomeRecord(store, Merge(Merge(record[1], [updatedAt |-> t]), updates))

\* Mutant of updateHomeRecord: createdAt is stamped like updatedAt.
updateHomeRecordRestamp(store, did, updates, t) ==
    LET record == readHomeRecord(store, did)
    IN  IF record = <<>>
        THEN store
        ELSE writeHomeRecord(store,
                Merge(Merge(record[1], updates),
                      [identity |-> record[1].identity,
                       createdAt |-> t,
                       updatedAt |-> t]))

\* The store after the call (unchanged when there is no record).
updateHomeRecord(store, did, updates, t) ==
    LET record == readHomeRecord(store, did)
    IN  IF record = <<>>
        THEN store
        ELSE writeHomeRecord(store,
                Merge(Merge(record[1], updates),
                      [identity |-> record[1].identity,
                       createdAt |-> record[1].createdAt,
                       updatedAt |-> t]))

\* Mutant of incrementBoot: the counter is written back unchanged.
incrementBootLost(store, did, t) ==
    LET record == readHomeRecord(store, did)
    IN  IF record = <<>>
        THEN store
        ELSE writeHomeRecord(store, Merge(record[1], [updatedAt |-> t]))

\* The store after the call; incrementBootResult is the number returned.
incrementBoot(store, did, t) ==
    LET record == readHomeRecord(store, did)
    IN  IF record = <<>>
        THEN store
        ELSE writeHomeRecord(store,
                Merge(record[1], [bootCount |-> record[1].bootCount + 1, updatedAt |-> t]))

incrementBootResult(store, did) ==
    LET record == readHomeRecord(store, did)
    IN  IF record = <<>> THEN 0 ELSE record[1].bootCount + 1

\* Mutant of createVisitorRecord: every new VLR is marked as the home VLR.
createVisitorRecordHome(did, sessionToken, capsule, isHome, t) ==
    [did |-> did,
     sessionToken |-> sessionToken,
     capsule |-> capsule,
     isHome |-> TRUE,
     arrivedAt |-> t,
     lastActivity |-> t]

createVisitorRecord(did, sessionToken, capsule, isHome, t) ==
    [did |-> did,
     sessionToken |-> sessionToken,
     capsule |-> capsule,
     registeredAt |-> t,
     lastActivity |-> t,
     pendingMessages |-> <<>>,
     isHome |-> isHome]

writeVisitorRecord(store, nodeId, record) ==
    write(store, vlrKey(nodeId, record.did), record)

readVisitorRecord(store, nodeId, did) ==
    read(store, vlrKey(nodeId, did))

\* Mutant of deleteVisitorRecord: nothing is deleted.
deleteVisitorRecordNoop(store, nodeId, did) ==
    store

deleteVisitorRecord(store, nodeId, did) ==
    delete(store, vlrKey(nodeId, did))

\* Mutant of touchVisitorRecord: the registration time is re-stamped too.
touchVisitorRecordRestamp(store, nodeId, did, t) ==
    LET record == readVisitorRecord(store, nodeId, did)
    IN  IF record = <<>>
        THEN store
        ELSE writeVisitorRecord(store, nodeId,
                Merge(record[1], [lastActivity |-> t, registeredAt |-> t]))

touchVisitorRecord(store, nodeId, did, t) ==
    LET record == readVisitorRecord(store, nodeId, did)
    IN  IF record = <<>>
        THEN store
        ELSE writeVisitorRecord(store, nodeId, Merge(record[1], [lastActivity |-> t]))

writeFrame(store, frame) ==
    LET did == frame.identity.did
        seq == frame.sessionToken.sequenceNumber
    IN  write(write(store, frameKey(did, seq), frame), latestKey(did), frame)

readLatestFrame(store, did) ==
    read(store, latestKey(did))

readFrame(store, did, sequenceNumber) ==
    read(store, frameKey(did, sequenceNumber))

hasIdentity(store, did) ==
    exists(store, latestKey(did))

queueMessage(queues, to, message) ==
    sendMessage(queues, to, message)

\* Mutant of receiveMessagesEffect: the queue is never cleared.
receiveMessagesEffectKeep(queues, did, clear) ==
    queues

\* The messages returned, and the queues after the call.
receiveMessages(queues, did) ==
    transportReceiveMessages(queues, did)

receiveMessagesEffect(queues, did, clear) ==
    IF clear /\ Len(transportReceiveMessages(queues, did)) > 0
    THEN clearMessages(queues, did)
    ELSE queues

-----------------------------------------------------------------------------
(* protocol.ts: each operation is one action, run to completion by the     *)
(* single writer.  The caller passes the frame it holds (cur).             *)

CanCall == nops + nenv < MaxSteps

NoCapsule == UNCHANGED <<chain, probe, procs, files, sent>>

\* wake, lines 84-105: the VLR fast path
WakeVlr(identity, node) ==
    LET did == identity.did
        vlr == readVisitorRecord(frames, node.nodeId, did)
    IN  /\ vlr # <<>>
        /\ ~isTokenExpired(vlr[1].sessionToken, now)
        /\ LET frame == vlr[1].capsule
               msgs == receiveMessages(messages, did)
           IN  /\ messages' = receiveMessagesEffect(messages, did, TRUE)
               /\ frames' = touchVisitorRecord(frames, node.nodeId, did, now)
               /\ res' = [op |-> "wake",
                          did |-> did,
                          node |-> node.nodeId,
                          success |-> TRUE,
                          sessionToken |-> vlr[1].sessionToken,
                          frame |-> frame,
                          continuityScore |-> frame.continuityScore,
                          restoreMethod |-> "vlr",
                          pendingMessages |-> msgs,
                          warnings |-> <<>>]
               /\ cur' = <<frame>>
               /\ UNCHANGED <<now, rnd>>

\* wake, lines 107-109
wakeWarnings(vlr, t) ==
    IF vlr # <<>> /\ isTokenExpired(vlr[1].sessionToken, t)
    THEN <<"VLR session expired, falling through to HLR">>
    ELSE <<>>

\* Mutant of wakeRestoreMethod: the latest frame is used without verification.
wakeRestoreMethodTrusting(latestFrame) ==
    IF latestFrame = <<>> THEN "hlr" ELSE "capsule"

\* wake, lines 114-126: the restore method of the deep path
wakeRestoreMethod(latestFrame) ==
    IF latestFrame = <<>>
    THEN "hlr"
    ELSE IF ~verifyFrameHash(latestFrame[1]) THEN "hlr" ELSE "capsule"

\* wake, lines 132-134
wakeSequenceNumber(hlr, latestFrame) ==
    IF latestFrame # <<>>
    THEN latestFrame[1].sessionToken.sequenceNumber + 1
    ELSE hlr.bootCount

\* Mutant of wakeBootFrame: the latest frame is never used as the source.
wakeBootFrameFromHlr(identity, node, hlr, latestFrame, bootCount, sessionToken, t) ==
    buildFrame([frameType |-> "boot",
                identity |-> identity,
                node |-> node,
                sessionToken |-> sessionToken,
                bootCount |-> bootCount,
                stage |-> hlr.stage,
                continuityState |-> hlr.continuityState,
                continuityScore |-> hlr.continuityScore,
                level |-> hlr.level,
                coreValues |-> hlr.coreValues,
                coreInterests |-> hlr.coreInterests,
                recentThemes |-> <<>>,
                openThreads |-> <<>>,
                priorities |-> <<>>,
                parentHash |-> hlr.lastCapsuleHash], t)

\* wake, lines 138-156: the boot frame built from the best available data
wakeBootFrame(identity, node, hlr, latestFrame, bootCount, sessionToken, t) ==
    LET fromCapsule == wakeRestoreMethod(latestFrame) = "capsule"
        src == IF fromCapsule THEN latestFrame[1] ELSE hlr
    IN  buildFrame([frameType |-> "boot",
                    identity |-> identity,
                    node |-> node,
                    sessionToken |-> sessionToken,
                    bootCount |-> bootCount,
                    stage |-> src.stage,
                    continuityState |-> src.continuityState,
                    continuityScore |-> src.continuityScore,
                    level |-> src.level,
                    coreValues |-> src.coreValues,
                    coreInterests |-> src.coreInterests,
                    recentThemes |-> IF fromCapsule THEN src.recentThemes ELSE <<>>,
                    openThreads |-> IF fromCapsule THEN src.openThreads ELSE <<>>,
                    priorities |-> IF fromCapsule THEN src.priorities ELSE <<>>,
                    parentHash |-> IF fromCapsule THEN src.frameHash
                                   ELSE hlr.lastCapsuleHash], t)

\* wake, lines 107-184: the HLR deep path
WakeHlr(identity, node) ==
    LET did == identity.did
        vlr == readVisitorRecord(frames, node.nodeId, did)
        hlr == readHomeRecord(frames, did)
    IN  /\ ~(vlr # <<>> /\ ~isTokenExpired(vlr[1].sessionToken, now))
        /\ hlr # <<>>
        /\ LET latestFrame == readLatestFrame(frames, did)
               bootCount == incrementBootResult(frames, did)
               s1 == incrementBoot(frames, did, now)
               sessionToken ==
                   createSessionToken(rnd, now, did, node.nodeId,
                                      wakeSequenceNumber(hlr[1], latestFrame))
               frame == wakeBootFrame(identity, node, hlr[1], latestFrame,
                                      bootCount, sessionToken, now)
               s2 == writeFrame(s1, frame)
               visitor == createVisitorRecord(did, sessionToken, frame,
                                              hlr[1].homeNodeId = node.nodeId, now)
               s3 == writeVisitorRecord(s2, node.nodeId, visitor)
               s4 == updateHomeRecord(s3, did,
                                      [currentNodeId |-> node.nodeId,
                                       lastCapsuleHash |-> frame.frameHash], now)
               msgs == receiveMessages(messages, did)
           IN  /\ frames' = s4
               /\ messages' = receiveMessagesEffect(messages, did, TRUE)
               /\ rnd' = rnd + 1
               /\ res' = [op |-> "wake",
                          did |-> did,
                          node |-> node.nodeId,
                          success |-> TRUE,
                          sessionToken |-> sessionToken,
                          frame |-> frame,
                          continuityScore |-> frame.continuityScore,
                          restoreMethod |-> wakeRestoreMethod(latestFrame),
                          pendingMessages |-> msgs,
                          warnings |-> wakeWarnings(vlr, now) \o
                              (IF latestFrame # <<>> /\ ~verifyFrameHash(latestFrame[1])
                               THEN <<"Frame hash verification failed">>
                               ELSE <<>>)]
               /\ cur' = <<frame>>
               /\ UNCHANGED now

\* wake, lines 186-213: genesis
WakeGenesis(identity, node) ==
    LET did == identity.did
        vlr == readVisitorRecord(frames, node.nodeId, did)
        hlr == readHomeRecord(frames, did)
    IN  /\ ~(vlr # <<>> /\ ~isTokenExpired(vlr[1].sessionToken, now))
        /\ hlr = <<>>
        /\ LET homeRecord ==
                   Merge(createHomeRecord(identity, node.nodeId, now), [bootCount |-> 1])
               s1 == writeHomeRecord(frames, homeRecord)
               frame == genesisFrame(identity, node, rnd, now)
               s2 == writeFrame(s1, frame)
               visitor == createVisitorRecord(did, frame.sessionToken, frame, TRUE, now)
               s3 == writeVisitorRecord(s2, node.nodeId, visitor)
           IN  /\ frames' = s3
               /\ rnd' = rnd + 1
               /\ res' = [op |-> "wake",
                          did |-> did,
                          node |-> node.nodeId,
                          success |-> TRUE,
                          sessionToken |-> frame.sessionToken,
                          frame |-> frame,
                          continuityScore |-> 0,
                          restoreMethod |-> "genesis",
                          pendingMessages |-> <<>>,
                          warnings |-> wakeWarnings(vlr, now)]
               /\ cur' = <<frame>>
               /\ UNCHANGED <<messages, now>>

Wake(identity, node) ==
    /\ CanCall
    /\ nops' = nops + 1
    /\ UNCHANGED nenv
    /\ NoCapsule
    /\ \/ WakeVlr(identity, node)
       \/ WakeHlr(identity, node)
       \/ WakeGenesis(identity, node)

\* Mutant of handoffVisitor: a VLR created by handoff keeps the session token
\* of the frame the caller passed in.
handoffVisitorStaleToken(store, currentFrame, node, frame, t) ==
    LET did == currentFrame.identity.did
        vlr == readVisitorRecord(store, node.nodeId, did)
    IN  IF vlr # <<>>
        THEN Merge(vlr[1], [capsule |-> frame, lastActivity |-> t])
        ELSE createVisitorRecord(did, currentFrame.sessionToken, frame, FALSE, t)

\* handoff, lines 250-266: the VLR at the node after the handoff frame is written
handoffVisitor(store, currentFrame, node, frame, t) ==
    LET did == currentFrame.identity.did
        vlr == readVisitorRecord(store, node.nodeId, did)
        hlr == readHomeRecord(store, did)
        isHome == IF hlr = <<>> THEN FALSE ELSE hlr[1].homeNodeId = node.nodeId
    IN  IF vlr # <<>>
        THEN Merge(vlr[1], [capsule |-> frame, lastActivity |-> t])
        ELSE createVisitorRecord(did, frame.sessionToken, frame, isHome, t)

\* Mutant of handoffHomeUpdates: the hash of the new frame is not recorded.
handoffHomeUpdatesNoHash(frame) ==
    [stage |-> frame.stage,
     continuityState |-> frame.continuityState,
     continuityScore |-> frame.continuityScore,
     level |-> frame.level,
     coreValues |-> frame.coreValues,
     coreInterests |-> frame.coreInterests]

\* handoff, lines 268-277
handoffHomeUpdates(frame) ==
    [stage |-> frame.stage,
     continuityState |-> frame.continuityState,
     continuityScore |-> frame.continuityScore,
     level |-> frame.level,
     coreValues |-> frame.coreValues,
     coreInterests |-> frame.coreInterests,
     lastCapsuleHash |-> frame.frameHash]

Handoff(currentFrame, node, updates) ==
    LET did == currentFrame.identity.did
        frame == handoffFrame(currentFrame, node, updates, rnd, now)
        s1 == writeFrame(frames, frame)
        vlr == readVisitorRecord(s1, node.nodeId, did)
        s2 == writeVisitorRecord(s1, node.nodeId,
                                 handoffVisitor(s1, currentFrame, node, frame, now))
        s3 == updateHomeRecord(s2, did, handoffHomeUpdates(frame), now)
    IN  /\ CanCall
        /\ nops' = nops + 1
        /\ frames' = s3
        /\ rnd' = rnd + 1
        /\ res' = [op |-> "handoff",
                   did |-> did,
                   node |-> node.nodeId,
                   success |-> TRUE,
                   frame |-> frame,
                   storedVia |-> "memory",
                   nextSessionToken |-> frame.sessionToken,
                   warnings |-> IF vlr # <<>> THEN <<>>
                                ELSE <<"No VLR record found during handoff">>]
        /\ cur' = <<frame>>
        /\ UNCHANGED <<messages, now, nenv>>
        /\ NoCapsule

\* roam, lines 302-326, and home, lines 376-400: the frame of a change of node
movedFrame(frameType, currentFrame, node, sessionToken, t) ==
    buildFrame([frameType |-> frameType,
                identity |-> currentFrame.identity,
                node |-> node,
                sessionToken |-> sessionToken,
                bootCount |-> currentFrame.bootCount,
                stage |-> currentFrame.stage,
                continuityState |-> currentFrame.continuityState,
                continuityScore |-> currentFrame.continuityScore,
                level |-> currentFrame.level,
                coreValues |-> currentFrame.coreValues,
                coreInterests |-> currentFrame.coreInterests,
                recentThemes |-> currentFrame.recentThemes,
                openThreads |-> currentFrame.openThreads,
                priorities |-> currentFrame.priorities,
                pendingMessages |-> currentFrame.pendingMessages,
                parentHash |-> currentFrame.frameHash], t)

Roam(currentFrame, homeNode, visitedNode) ==
    LET did == currentFrame.identity.did
        sessionToken ==
            createSessionToken(rnd, now, did, visitedNode.nodeId,
                               currentFrame.sessionToken.sequenceNumber + 1)
        roamFrame == movedFrame("roam", currentFrame, visitedNode, sessionToken, now)
        s1 == writeFrame(frames, roamFrame)
        visitor == createVisitorRecord(did, sessionToken, roamFrame, FALSE, now)
        s2 == writeVisitorRecord(s1, visitedNode.nodeId, visitor)
        hlr == readHomeRecord(s2, did)
        s3 == IF hlr # <<>>
              THEN updateHomeRecord(s2, did,
                                    [currentNodeId |-> visitedNode.nodeId,
                                     lastCapsuleHash |-> roamFrame.frameHash], now)
              ELSE s2
    IN  /\ CanCall
        /\ nops' = nops + 1
        /\ frames' = s3
        /\ rnd' = rnd + 1
        /\ res' = [op |-> "roam",
                   did |-> did,
                   node |-> visitedNode.nodeId,
                   success |-> TRUE,
                   visitedNode |-> visitedNode,
                   visitorRecord |-> visitor,
                   homeNotified |-> (hlr # <<>>)]
        /\ cur' = <<visitor.capsule>>
        /\ UNCHANGED <<messages, now, nenv>>
        /\ NoCapsule

Home(currentFrame, homeNode, foreignNodeId) ==
    LET did == currentFrame.identity.did
        s1 == deleteVisitorRecord(frames, foreignNodeId, did)
        sessionToken ==
            createSessionToken(rnd, now, did, homeNode.nodeId,
                               currentFrame.sessionToken.sequenceNumber + 1)
        homeFrame == movedFrame("home", currentFrame, homeNode, sessionToken, now)
        s2 == writeFrame(s1, homeFrame)
        visitor == createVisitorRecord(did, sessionToken, homeFrame, TRUE, now)
        s3 == writeVisitorRecord(s2, homeNode.nodeId, visitor)
        s4 == updateHomeRecord(s3, did,
                               [currentNodeId |-> homeNode.nodeId,
                                lastCapsuleHash |-> homeFrame.frameHash], now)
        msgs == receiveMessages(messages, did)
    IN  /\ CanCall
        /\ nops' = nops + 1
        /\ frames' = s4
        /\ messages' = receiveMessagesEffect(messages, did, TRUE)
        /\ rnd' = rnd + 1
        /\ res' = [op |-> "home",
                   did |-> did,
                   node |-> homeNode.nodeId,
                   foreignNodeId |-> foreignNodeId,
                   success |-> TRUE,
                   sessionToken |-> sessionToken,
                   frame |-> homeFrame,
                   continuityScore |-> homeFrame.continuityScore,
                   restoreMethod |-> "vlr",
                   pendingMessages |-> msgs,
                   warnings |-> <<>>]
        /\ cur' = <<homeFrame>>
        /\ UNCHANGED <<now, nenv>>
        /\ NoCapsule

\* keepalive, lines 457-462: the VLR refreshed with the keepalive frame
keepaliveVisitor(store, nodeId, did, frame) ==
    LET vlr == readVisitorRecord(store, nodeId, did)
    IN  IF vlr # <<>>
        THEN writeVisitorRecord(store, nodeId, Merge(vlr[1], [capsule |-> frame]))
        ELSE store

Keepalive(currentFrame, node) ==
    LET did == currentFrame.identity.did
        frame == keepaliveFrame(currentFrame, node, now)
        s1 == writeFrame(frames, frame)
        s2 == touchVisitorRecord(s1, node.nodeId, did, now)
        s3 == keepaliveVisitor(s2, node.nodeId, did, frame)
    IN  /\ CanCall
        /\ nops' = nops + 1
        /\ frames' = s3
        /\ messages' = receiveMessagesEffect(messages, did, FALSE)
        /\ res' = [op |-> "keepalive",
                   did |-> did,
                   node |-> node.nodeId,
                   alive |-> TRUE,
                   lastActivity |-> now,
                   newMessages |-> receiveMessages(messages, did),
                   continuityScore |-> frame.continuityScore]
        /\ UNCHANGED <<now, rnd, cur, nenv>>
        /\ NoCapsule

-----------------------------------------------------------------------------
(* The environment of the protocol *)

\* The clock advances by the session TTL: a token issued at t is still valid
\* one tick later (expiresAt = now) and expired after two.
Tick ==
    /\ CanCall
    /\ nenv' = nenv + 1
    /\ now' = now + DEFAULT_SESSION_TTL_SECONDS * 1000
    /\ UNCHANGED <<frames, messages, rnd, cur, res, nops>>
    /\ NoCapsule

\* capsule.ts, createMessage (lines 301-320), without the optional payload
createMessage(id, from, to, messageType, content, t) ==
    [id |-> id, from |-> from, to |-> to, messageType |-> messageType,
     content |-> content, contentHash |-> <<content>>, createdAt |-> t, ttl |-> 0]

\* Another identity queues a message for did (registry.ts, queueMessage).
QueueMessage(did) ==
    /\ CanCall
    /\ nenv' = nenv + 1
    /\ messages' = queueMessage(messages, did,
                        createMessage(rnd, "did:sender", did, "text", "ping", now))
    /\ rnd' = rnd + 1
    /\ UNCHANGED <<frames, now, cur, res, nops>>
    /\ NoCapsule

\* A direct call of deleteVisitorRecord, as a fresh process or an expiry sweep makes.
DeleteVisitorRecord(nodeId, did) ==
    /\ CanCall
    /\ exists(frames, vlrKey(nodeId, did))
    /\ nenv' = nenv + 1
    /\ frames' = deleteVisitorRecord(frames, nodeId, did)
    /\ UNCHANGED <<messages, now, rnd, cur, res, nops>>
    /\ NoCapsule

-----------------------------------------------------------------------------
(* The protocol driven by a single writer *)

EmptyStore == [k \in {} |-> <<>>]

Init ==
    /\ frames = EmptyStore
    /\ messages = EmptyStore
    /\ now = 0
    /\ rnd = 0
    /\ cur = <<>>
    /\ res = [op |-> "none"]
    /\ nops = 0
    /\ nenv = 0
    /\ chain = <<>>
    /\ probe = <<>>
    /\ procs = <<>>
    /\ files = EmptyStore
    /\ sent = EmptyStore

Next ==
    \/ \E d \in DIDs, n \in NodeIds : Wake(Identity(d), Node(n))
    \/ \E n \in NodeIds, i \in 1..Len(UpdatesList) :
            cur # <<>> /\ Handoff(cur[1], Node(n), UpdatesList[i])
    \/ \E h \in NodeIds, v \in NodeIds : cur # <<>> /\ Roam(cur[1], Node(h), Node(v))
    \/ \E h \in NodeIds, f \in NodeIds : cur # <<>> /\ Home(cur[1], Node(h), f)
    \/ \E n \in NodeIds : cur # <<>> /\ Keepalive(cur[1], Node(n))
    \/ Tick
    \/ \E d \in DIDs : QueueMessage(d)
    \/ \E n \in NodeIds, d \in DIDs : DeleteVisitorRecord(n, d)

Spec == Init /\ [][Next]_vars

-----------------------------------------------------------------------------
(* The capsule functions on their own: a chain is built by genesisFrame    *)
(* and handoffFrame, with the random token and the clock drawn freely, so  *)
(* that two frames may share both; the last frame may then be edited in    *)
(* one field and verified again.                                           *)

Tokens == {"t1", "t2"}

Times == {0}

TopFields ==
    {"version", "frameType", "identity", "node", "bootCount", "stage",
     "continuityState", "continuityScore", "level", "coreValues", "coreInterests",
     "recentThemes", "openThreads", "priorities", "pendingMessages", "parentHash",
     "createdAt", "expiresAt"}

TokenFields ==
    {"sessionToken.token", "sessionToken.did", "sessionToken.nodeId",
     "sessionToken.issuedAt", "sessionToken.expiresAt", "sessionToken.sequenceNumber"}

\* The fields of the SignalFrame wire shape other than frameHash and signature
WireFields == TopFields \cup TokenFields

\* frame with the value of one field replaced by a different value of its type
EditField(frame, field) ==
    CASE field \in {"version", "frameType", "stage", "continuityState"} ->
            [frame EXCEPT ![field] = @ \o "~"]
      [] field \in {"bootCount", "continuityScore", "level", "createdAt", "expiresAt"} ->
            [frame EXCEPT ![field] = @ + 1]
      [] field \in {"coreValues", "coreInterests", "recentThemes", "openThreads",
                    "priorities"} ->
            [frame EXCEPT ![field] = Append(@, "~")]
      [] field = "pendingMessages" ->
            [frame EXCEPT !.pendingMessages =
                Append(@, createMessage("m", "did:sender", frame.identity.did,
                                        "text", "ping", frame.createdAt))]
      [] field = "identity" -> [frame EXCEPT !.identity.handle = @ \o "~"]
      [] field = "node" -> [frame EXCEPT !.node.nodeName = @ \o "~"]
      [] field = "parentHash" -> [frame EXCEPT !.parentHash = frame.frameHash]
      [] field \in {"sessionToken.token", "sessionToken.did", "sessionToken.nodeId"} ->
            LET f == CHOOSE x \in {"token", "did", "nodeId"} : field = "sessionToken." \o x
            IN  [frame EXCEPT !.sessionToken[f] = @ \o "~"]
      [] OTHER ->
            LET f == CHOOSE x \in {"issuedAt", "expiresAt", "sequenceNumber"} :
                        field = "sessionToken." \o x
            IN  [frame EXCEPT !.sessionToken[f] = @ + 1]

InitCapsule ==
    /\ frames = EmptyStore
    /\ messages = EmptyStore
    /\ now = 0
    /\ rnd = 0
    /\ cur = <<>>
    /\ res = [op |-> "none"]
    /\ nops = 0
    /\ nenv = 0
    /\ \E d \in DIDs, n \in NodeIds, token \in Tokens, t \in Times :
            chain = <<genesisFrame(Identity(d), Node(n), token, t)>>
    /\ probe = <<>>
    /\ procs = <<>>
    /\ files = EmptyStore
    /\ sent = EmptyStore

NoProtocol ==
    UNCHANGED <<frames, messages, now, rnd, cur, res, nops, nenv, procs, files, sent>>

ChainHandoff(node, updates, token, t) ==
    /\ probe = <<>>
    /\ Len(chain) < MaxChain
    /\ chain' = Append(chain, handoffFrame(chain[Len(chain)], node, updates, token, t))
    /\ UNCHANGED probe
    /\ NoProtocol

\* tests/signal.test.ts, "detects a tampered frame", for any field
Tamper(field) ==
    /\ probe = <<>>
    /\ LET edited == EditField(chain[Len(chain)], field)
       IN  probe' = <<[field |-> field,
                       frame |-> edited,
                       verified |-> verifyFrameHash(edited)]>>
    /\ UNCHANGED chain
    /\ NoProtocol

NextCapsule ==
    \/ \E n \in NodeIds, i \in 1..Len(UpdatesList), token \in Tokens, t \in Times :
            ChainHandoff(Node(n), UpdatesList[i], token, t)
    \/ \E field \in WireFields : Tamper(field)

SpecCapsule == InitCapsule /\ [][NextCapsule]_vars

-----------------------------------------------------------------------------
(* The protocol over a store whose latest frame can be damaged between     *)
(* calls: the record under latest:{did} is edited in one hashed field, or  *)
(* its stored frameHash is replaced.                                       *)

CorruptFields == {"stage", "continuityScore", "recentThemes", "frameHash"}

CorruptFrame(frame, field) ==
    IF field = "frameHash"
    THEN [frame EXCEPT !.frameHash = ZeroHash]
    ELSE EditField(frame, field)

\* A verified latest frame is damaged; one that already fails is left alone.
CorruptLatest(did, field) ==
    /\ CanCall
    /\ exists(frames, latestKey(did))
    /\ verifyFrameHash(frames[latestKey(did)])
    /\ nenv' = nenv + 1
    /\ frames' = write(frames, latestKey(did), CorruptFrame(frames[latestKey(did)], field))
    /\ UNCHANGED <<messages, now, rnd, cur, res, nops>>
    /\ NoCapsule

NextTamper ==
    \/ \E d \in DIDs, n \in NodeIds : Wake(Identity(d), Node(n))
    \/ \E n \in NodeIds, i \in 1..Len(UpdatesList) :
            cur # <<>> /\ Handoff(cur[1], Node(n), UpdatesList[i])
    \/ \E d \in DIDs, field \in CorruptFields : CorruptLatest(d, field)
    \/ \E n \in NodeIds, d \in DIDs : DeleteVisitorRecord(n, d)

SpecTamper == Init /\ [][NextTamper]_vars

-----------------------------------------------------------------------------
(* The protocol called with a frame that was never stored: the caller      *)
(* builds a genesis frame with genesisFrame and passes it to roam or home  *)
(* on an empty store, so these run for an identity without a HomeRecord.   *)

InitDetached ==
    /\ frames = EmptyStore
    /\ messages = EmptyStore
    /\ now = 0
    /\ rnd = 1
    /\ \E d \in DIDs, n \in NodeIds : cur = <<genesisFrame(Identity(d), Node(n), 0, 0)>>
    /\ res = [op |-> "none"]
    /\ nops = 0
    /\ nenv = 0
    /\ chain = <<>>
    /\ probe = <<>>
    /\ procs = <<>>
    /\ files = EmptyStore
    /\ sent = EmptyStore

NextDetached ==
    \/ \E d \in DIDs, n \in NodeIds : Wake(Identity(d), Node(n))
    \/ \E h \in NodeIds, v \in NodeIds : cur # <<>> /\ Roam(cur[1], Node(h), Node(v))
    \/ \E h \in NodeIds, f \in NodeIds : cur # <<>> /\ Home(cur[1], Node(h), f)
    \/ Tick

SpecDetached == InitDetached /\ [][NextDetached]_vars

-----------------------------------------------------------------------------
(* file-transport.ts: the message queue of FileTransport, side by side     *)
(* with the queue of MemoryTransport.  A directory is a function from file *)
(* names to messages; a name msg_{ts}_{rand}.json is the pair of its       *)
(* timestamp and its random suffix, and names of one timestamp width sort  *)
(* as strings by timestamp and then by suffix.                             *)

\* The random suffixes a send can draw, by their rank in string order
Rands == {0, 1}

\* sanitize, lines 37-39: every character outside [a-zA-Z0-9_-] becomes "_"
sanitize(input) ==
    CASE input = "did:a" -> "did_a"
      [] input = "did:b" -> "did_b"
      [] OTHER -> input

fileName(ts, rand) == [ts |-> ts, rand |-> rand]

\* String order of two file names
NameBefore(a, b) ==
    \/ a.ts < b.ts
    \/ a.ts = b.ts /\ a.rand < b.rand

\* FileTransport.sendMessage, lines 121-130
fileSendMessage(dirs, to, message, ts, rand) ==
    LET dir == IF sanitize(to) \in DOMAIN dirs THEN dirs[sanitize(to)] ELSE EmptyStore
    IN  write(dirs, sanitize(to), write(dir, fileName(ts, rand), message))

\* readdirSync(msgDir).sort(), lines 136-138
RECURSIVE sortedNames(_)
sortedNames(names) ==
    IF names = {}
    THEN <<>>
    ELSE LET first == CHOOSE a \in names : \A b \in names \ {a} : NameBefore(a, b)
         IN  <<first>> \o sortedNames(names \ {first})

\* FileTransport.receiveMessages, lines 132-150
fileReceiveMessages(dirs, did) ==
    IF sanitize(did) \notin DOMAIN dirs
    THEN <<>>
    ELSE LET dir == dirs[sanitize(did)]
             names == sortedNames(DOMAIN dir)
         IN  [i \in 1..Len(names) |-> dir[names[i]]]

\* FileTransport.clearMessages, lines 152-160: the directory stays, empty
fileClearMessages(dirs, did) ==
    IF sanitize(did) \notin DOMAIN dirs
    THEN dirs
    ELSE write(dirs, sanitize(did), EmptyStore)

\* The messages sent to did since its queue was last cleared, in send order
Sent(did) == IF did \in DOMAIN sent THEN sent[did] ELSE <<>>

\* One message is sent to did through both transports at the current time.
SendBoth(did, rand) ==
    LET message == createMessage(rnd, "did:sender", did, "text", "ping", now)
    IN  /\ CanCall
        /\ nops' = nops + 1
        /\ messages' = sendMessage(messages, did, message)
        /\ files' = fileSendMessage(files, did, message, now, rand)
        /\ sent' = write(sent, did, Append(Sent(did), message))
        /\ rnd' = rnd + 1
        /\ UNCHANGED <<frames, now, cur, res, nenv, chain, probe, procs>>

ClearBoth(did) ==
    /\ CanCall
    /\ nenv' = nenv + 1
    /\ messages' = clearMessages(messages, did)
    /\ files' = fileClearMessages(files, did)
    /\ sent' = delete(sent, did)
    /\ UNCHANGED <<frames, now, rnd, cur, res, nops, chain, probe, procs>>

\* The clock advances by one millisecond.
TickMs ==
    /\ CanCall
    /\ nenv' = nenv + 1
    /\ now' = now + 1
    /\ UNCHANGED <<frames, messages, rnd, cur, res, nops, chain, probe, procs, files, sent>>

NextFile ==
    \/ \E d \in DIDs, rand \in Rands : SendBoth(d, rand)
    \/ \E d \in DIDs : ClearBoth(d)
    \/ TickMs

SpecFile == Init /\ [][NextFile]_vars

-----------------------------------------------------------------------------
(* Two concurrent wake calls for one identity.  Every await on a transport *)
(* call is a point where the other call can run, so a call is a sequence   *)
(* of steps, one per transport call, with the values it has read held in   *)
(* the process's own record.  The store starts as a genesis wake at n1 at  *)
(* time 0 left it, with one message queued since and the clock past the    *)
(* expiry of the VLR.  The HomeRecord exists throughout, so the genesis    *)
(* branch of wake is not taken here.                                       *)

Procs == {"p1", "p2"}

RaceDid == "did:a"

\* Mutant of bootedRecord: the counter is advanced by two.
bootedRecordTwice(record, t) ==
    Merge(record, [bootCount |-> record.bootCount + 2, updatedAt |-> t])

\* registry.ts, incrementBoot lines 132-133: the record written back
bootedRecord(record, t) ==
    Merge(record, [bootCount |-> record.bootCount + 1, updatedAt |-> t])

\* registry.ts, updateHomeRecord lines 112-118: the record written back
updatedRecord(record, updates, t) ==
    Merge(Merge(record, updates),
          [identity |-> record.identity, createdAt |-> record.createdAt, updatedAt |-> t])

\* The values a wake call holds before its first transport call
StartOfWake(n) ==
    [pc |-> "readVlr", node |-> n, vlr |-> <<>>, hlr |-> <<>>, latestFrame |-> <<>>,
     record |-> <<>>, bootCount |-> 0, frame |-> <<>>, messages |-> <<>>,
     warnings |-> <<>>, result |-> <<>>]

GenesisStore ==
    LET identity == Identity(RaceDid)
        node == Node("n1")
        frame == genesisFrame(identity, node, 0, 0)
        homeRecord == Merge(createHomeRecord(identity, node.nodeId, 0), [bootCount |-> 1])
        visitor == createVisitorRecord(RaceDid, frame.sessionToken, frame, TRUE, 0)
    IN  writeVisitorRecord(writeFrame(writeHomeRecord(EmptyStore, homeRecord), frame),
                           node.nodeId, visitor)

InitRace ==
    /\ frames = GenesisStore
    /\ messages = queueMessage(EmptyStore, RaceDid,
                        createMessage(1, "did:sender", RaceDid, "text", "ping", 0))
    /\ now = 2 * DEFAULT_SESSION_TTL_SECONDS * 1000
    /\ rnd = 2
    /\ cur = <<>>
    /\ res = [op |-> "none"]
    /\ nops = 0
    /\ nenv = 0
    /\ chain = <<>>
    /\ probe = <<>>
    /\ \E n1 \in NodeIds, n2 \in NodeIds :
            procs = [p \in Procs |-> StartOfWake(IF p = "p1" THEN n1 ELSE n2)]
    /\ files = EmptyStore
    /\ sent = EmptyStore

\* The result object a wake call returns
WakeReturn(l, sessionToken, frame, restoreMethod, msgs) ==
    [success |-> TRUE,
     sessionToken |-> sessionToken,
     frame |-> frame,
     continuityScore |-> frame.continuityScore,
     restoreMethod |-> restoreMethod,
     pendingMessages |-> msgs,
     warnings |-> l.warnings]

\* What no step of a racing wake changes
NoSingleWriter == UNCHANGED <<now, cur, res, nops, nenv, chain, probe, files, sent>>

\* Process p moves to the local values l.
Goto(p, l) == procs' = [procs EXCEPT ![p] = l]

\* wake, lines 84-85 and 107-109: readVisitorRecord and the choice of path
ReadVlr(p) ==
    LET l == procs[p]
        vlr == readVisitorRecord(frames, l.node, RaceDid)
        valid == vlr # <<>> /\ ~isTokenExpired(vlr[1].sessionToken, now)
    IN  /\ l.pc = "readVlr"
        /\ Goto(p, [l EXCEPT !.vlr = vlr,
                             !.warnings = IF valid THEN <<>> ELSE wakeWarnings(vlr, now),
                             !.pc = IF valid THEN "fastReceive" ELSE "readHlr"])
        /\ UNCHANGED <<frames, messages, rnd>>
        /\ NoSingleWriter

\* wake, line 90: receiveMessages, the read of the queue
FastReceive(p) ==
    LET l == procs[p]
        msgs == transportReceiveMessages(messages, RaceDid)
    IN  /\ l.pc = "fastReceive"
        /\ Goto(p, [l EXCEPT !.messages = msgs,
                             !.pc = IF Len(msgs) > 0 THEN "fastClear" ELSE "touchRead"])
        /\ UNCHANGED <<frames, messages, rnd>>
        /\ NoSingleWriter

\* wake, line 90: receiveMessages, the clearing of the queue
FastClear(p) ==
    LET l == procs[p]
    IN  /\ l.pc = "fastClear"
        /\ messages' = clearMessages(messages, RaceDid)
        /\ Goto(p, [l EXCEPT !.pc = "touchRead"])
        /\ UNCHANGED <<frames, rnd>>
        /\ NoSingleWriter

\* wake, line 93: touchVisitorRecord, the read
TouchRead(p) ==
    LET l == procs[p]
        record == readVisitorRecord(frames, l.node, RaceDid)
    IN  /\ l.pc = "touchRead"
        /\ Goto(p, IF record = <<>>
                   THEN [l EXCEPT !.pc = "done",
                                  !.result = <<WakeReturn(l, l.vlr[1].sessionToken,
                                                          l.vlr[1].capsule, "vlr",
                                                          l.messages)>>]
                   ELSE [l EXCEPT !.record = record, !.pc = "touchWrite"])
        /\ UNCHANGED <<frames, messages, rnd>>
        /\ NoSingleWriter

\* wake, lines 93-104: touchVisitorRecord, the write, and the return
TouchWrite(p) ==
    LET l == procs[p]
    IN  /\ l.pc = "touchWrite"
        /\ frames' = writeVisitorRecord(frames, l.node,
                                        Merge(l.record[1], [lastActivity |-> now]))
        /\ Goto(p, [l EXCEPT !.pc = "done",
                             !.result = <<WakeReturn(l, l.vlr[1].sessionToken,
                                                     l.vlr[1].capsule, "vlr",
                                                     l.messages)>>])
        /\ UNCHANGED <<messages, rnd>>
        /\ NoSingleWriter

\* wake, lines 112-113: readHomeRecord
ReadHlr(p) ==
    LET l == procs[p]
        hlr == readHomeRecord(frames, RaceDid)
    IN  /\ l.pc = "readHlr"
        /\ Goto(p, [l EXCEPT !.hlr = hlr,
                             !.pc = IF hlr = <<>> THEN "genesis" ELSE "readLatest"])
        /\ UNCHANGED <<frames, messages, rnd>>
        /\ NoSingleWriter

\* wake, lines 117-126: readLatestFrame and its verification
ReadLatest(p) ==
    LET l == procs[p]
        latestFrame == readLatestFrame(frames, RaceDid)
    IN  /\ l.pc = "readLatest"
        /\ Goto(p, [l EXCEPT !.latestFrame = latestFrame,
                             !.warnings =
                                 @ \o (IF latestFrame # <<>> /\ ~verifyFrameHash(latestFrame[1])
                                       THEN <<"Frame hash verification failed">>
                                       ELSE <<>>),
                             !.pc = "bootRead"])
        /\ UNCHANGED <<frames, messages, rnd>>
        /\ NoSingleWriter

\* wake, line 129: incrementBoot, the read (registry.ts line 129)
BootRead(p) ==
    LET l == procs[p]
    IN  /\ l.pc = "bootRead"
        /\ Goto(p, [l EXCEPT !.record = readHomeRecord(frames, RaceDid), !.pc = "bootWrite"])
        /\ UNCHANGED <<frames, messages, rnd>>
        /\ NoSingleWriter

\* wake, lines 129-156: incrementBoot, the write (registry.ts lines 132-135),
\* then the session token and the boot frame built from the values read
BootWrite(p) ==
    LET l == procs[p]
        bootCount == IF l.record = <<>> THEN 0 ELSE l.record[1].bootCount + 1
        sessionToken ==
            createSessionToken(rnd, now, RaceDid, l.node,
                               wakeSequenceNumber(l.hlr[1], l.latestFrame))
        frame == wakeBootFrame(Identity(RaceDid), Node(l.node), l.hlr[1], l.latestFrame,
                               bootCount, sessionToken, now)
    IN  /\ l.pc = "bootWrite"
        /\ frames' = IF l.record = <<>>
                     THEN frames
                     ELSE writeHomeRecord(frames, bootedRecord(l.record[1], now))
        /\ rnd' = rnd + 1
        /\ Goto(p, [l EXCEPT !.bootCount = bootCount, !.frame = <<frame>>,
                             !.pc = "writeArchive"])
        /\ UNCHANGED messages
        /\ NoSingleWriter

\* wake, line 159: writeFrame, the archive write (registry.ts line 214)
WriteArchive(p) ==
    LET l == procs[p]
        frame == l.frame[1]
    IN  /\ l.pc = "writeArchive"
        /\ frames' = write(frames, frameKey(RaceDid, frame.sessionToken.sequenceNumber), frame)
        /\ Goto(p, [l EXCEPT !.pc = "writeLatest"])
        /\ UNCHANGED <<messages, rnd>>
        /\ NoSingleWriter

\* wake, line 159: writeFrame, the latest write (registry.ts line 217)
WriteLatest(p) ==
    LET l == procs[p]
    IN  /\ l.pc = "writeLatest"
        /\ frames' = write(frames, latestKey(RaceDid), l.frame[1])
        /\ Goto(p, [l EXCEPT !.pc = "writeVlr"])
        /\ UNCHANGED <<messages, rnd>>
        /\ NoSingleWriter

\* wake, lines 162-163: the VLR registered at the node
WriteVlr(p) ==
    LET l == procs[p]
        frame == l.frame[1]
        visitor == createVisitorRecord(RaceDid, frame.sessionToken, frame,
                                       l.hlr[1].homeNodeId = l.node, now)
    IN  /\ l.pc = "writeVlr"
        /\ frames' = writeVisitorRecord(frames, l.node, visitor)
        /\ Goto(p, [l EXCEPT !.pc = "updateRead"])
        /\ UNCHANGED <<messages, rnd>>
        /\ NoSingleWriter

\* wake, line 166: updateHomeRecord, the read (registry.ts line 109)
UpdateRead(p) ==
    LET l == procs[p]
        record == readHomeRecord(frames, RaceDid)
    IN  /\ l.pc = "updateRead"
        /\ Goto(p, [l EXCEPT !.record = record,
                             !.pc = IF record = <<>> THEN "receive" ELSE "updateWrite"])
        /\ UNCHANGED <<frames, messages, rnd>>
        /\ NoSingleWriter

\* wake, lines 166-169: updateHomeRecord, the write (registry.ts lines 112-120)
UpdateWrite(p) ==
    LET l == procs[p]
    IN  /\ l.pc = "updateWrite"
        /\ frames' = writeHomeRecord(frames,
                        updatedRecord(l.record[1],
                                      [currentNodeId |-> l.node,
                                       lastCapsuleHash |-> l.frame[1].frameHash], now))
        /\ Goto(p, [l EXCEPT !.pc = "receive"])
        /\ UNCHANGED <<messages, rnd>>
        /\ NoSingleWriter

\* wake, lines 172-183: receiveMessages, the read of the queue, and the
\* return when the queue is empty
Receive(p) ==
    LET l == procs[p]
        frame == l.frame[1]
        msgs == transportReceiveMessages(messages, RaceDid)
    IN  /\ l.pc = "receive"
        /\ Goto(p, IF Len(msgs) > 0
                   THEN [l EXCEPT !.messages = msgs, !.pc = "clear"]
                   ELSE [l EXCEPT !.messages = msgs,
                                  !.pc = "done",
                                  !.result = <<WakeReturn(l, frame.sessionToken, frame,
                                                          wakeRestoreMethod(l.latestFrame),
                                                          msgs)>>])
        /\ UNCHANGED <<frames, messages, rnd>>
        /\ NoSingleWriter

\* wake, lines 172-183: receiveMessages, the clearing of the queue, and the return
Clear(p) ==
    LET l == procs[p]
        frame == l.frame[1]
    IN  /\ l.pc = "clear"
        /\ messages' = clearMessages(messages, RaceDid)
        /\ Goto(p, [l EXCEPT !.pc = "done",
                             !.result = <<WakeReturn(l, frame.sessionToken, frame,
                                                     wakeRestoreMethod(l.latestFrame),
                                                     l.messages)>>])
        /\ UNCHANGED <<frames, rnd>>
        /\ NoSingleWriter

NextRace ==
    \E p \in Procs :
        \/ ReadVlr(p)
        \/ FastReceive(p)
        \/ FastClear(p)
        \/ TouchRead(p)
        \/ TouchWrite(p)
        \/ ReadHlr(p)
        \/ ReadLatest(p)
        \/ BootRead(p)
        \/ BootWrite(p)
        \/ WriteArchive(p)
        \/ WriteLatest(p)
        \/ WriteVlr(p)
        \/ UpdateRead(p)
        \/ UpdateWrite(p)
        \/ Receive(p)
        \/ Clear(p)

SpecRace == InitRace /\ [][NextRace]_vars

-----------------------------------------------------------------------------
(* The wake calls of SpecRace with another identity that queues messages   *)
(* for the waking one: queueMessage is a single transport call, so it can  *)
(* run at any await of a wake, also between the read of the queue and its  *)
(* clearing.  sent records what was queued.                                *)

MaxSends == 1

\* registry.ts, queueMessage (lines 248-254), called by the sender
RaceSend ==
    LET message == createMessage(100 + Len(Sent(RaceDid)), "did:sender", RaceDid,
                                 "text", "pong", now)
    IN  /\ Len(Sent(RaceDid)) < MaxSends
        /\ messages' = queueMessage(messages, RaceDid, message)
        /\ sent' = write(sent, RaceDid, Append(Sent(RaceDid), message))
        /\ UNCHANGED <<frames, now, rnd, cur, res, nops, nenv, chain, probe, procs, files>>

NextSend ==
    \/ NextRace
    \/ RaceSend

SpecSend == InitRace /\ [][NextSend]_vars

-----------------------------------------------------------------------------
(* The registry called directly: HomeRecords are written with              *)
(* writeHomeRecord and changed with updateHomeRecord, whose updates may    *)
(* name any field, identity, createdAt and updatedAt included.             *)

AllDIDs == {"did:a", "did:b"}

HomeUpdatesList ==
    <<  <<>>,
        [stage |-> "growing", continuityScore |-> 55, level |-> 3,
         coreValues |-> <<"sovereignty">>],
        [currentNodeId |-> "n2", lastCapsuleHash |-> <<"h">>],
        [identity |-> Identity("did:b"), createdAt |-> 99, updatedAt |-> 98,
         stage |-> "nascent"]  >>

\* updateHomeRecord, lines 109-121: the value returned
updateHomeRecordResult(store, did, updates, t) ==
    LET record == readHomeRecord(store, did)
    IN  IF record = <<>> THEN <<>> ELSE <<updatedRecord(record[1], updates, t)>>

\* tests/signal.test.ts, lines 414-417: a HomeRecord is created and stored
WriteHome(did, nodeId) ==
    /\ CanCall
    /\ ~exists(frames, hlrKey(did))
    /\ nenv' = nenv + 1
    /\ frames' = writeHomeRecord(frames, createHomeRecord(Identity(did), nodeId, now))
    /\ UNCHANGED <<messages, now, rnd, cur, res, nops>>
    /\ NoCapsule

UpdateHome(did, updates) ==
    /\ CanCall
    /\ nops' = nops + 1
    /\ frames' = updateHomeRecord(frames, did, updates, now)
    /\ res' = [op |-> "updateHomeRecord",
               did |-> did,
               updates |-> updates,
               returned |-> updateHomeRecordResult(frames, did, updates, now)]
    /\ UNCHANGED <<messages, now, rnd, cur, nenv>>
    /\ NoCapsule

NextRegistry ==
    \/ \E d \in AllDIDs, n \in NodeIds : WriteHome(d, n)
    \/ \E d \in AllDIDs, i \in 1..Len(HomeUpdatesList) : UpdateHome(d, HomeUpdatesList[i])
    \/ Tick

SpecRegistry == Init /\ [][NextRegistry]_vars

-----------------------------------------------------------------------------
(* Two identities on one transport and the same nodes.  Whole operations   *)
(* of the two identities interleave; an operation that takes a frame is    *)
(* given a frame of its identity that a caller can hold: the frame of the  *)
(* last result, the latest frame, or the capsule of a VLR.  Handoff and    *)
(* keepalive run at the node of that frame, and home leaves that node.     *)

HeldFrames(d) ==
    {cur[i] : i \in {j \in 1..Len(cur) : cur[j].identity.did = d}}
        \cup {frames[k] : k \in {latestKey(d)} \cap DOMAIN frames}
        \cup {frames[k].capsule : k \in {vlrKey(n, d) : n \in NodeIds} \cap DOMAIN frames}

NextMulti ==
    \/ \E d \in AllDIDs, n \in NodeIds : Wake(Identity(d), Node(n))
    \/ \E d \in AllDIDs :
            \E f \in HeldFrames(d) : Handoff(f, f.node, UpdatesList[2])
    \/ \E d \in AllDIDs, v \in NodeIds :
            \E f \in HeldFrames(d) : Roam(f, Node("n1"), Node(v))
    \/ \E d \in AllDIDs, h \in NodeIds :
            \E f \in HeldFrames(d) : Home(f, Node(h), f.node.nodeId)
    \/ \E d \in AllDIDs :
            \E f \in HeldFrames(d) : Keepalive(f, f.node)
    \/ \E d \in AllDIDs : QueueMessage(d)

SpecMulti == Init /\ [][NextMulti]_vars

-----------------------------------------------------------------------------
(* Calls that are interrupted.  A call awaits every transport call, so it  *)
(* can stop between any two of them: the writes made so far are in the     *)
(* store and the later ones never happen.  For each operation the stages   *)
(* are the writing transport calls in the order of the code, each with the *)
(* register it writes ("hlr", "frame", "vlr" or "queue") and the store and *)
(* the queues it leaves.  Reads change nothing and are not stages.         *)

Stage(register, store, queues) ==
    [register |-> register, frames |-> store, messages |-> queues]

\* registry.ts, writeFrame line 213: the first of its two writes
writeArchive(store, frame) ==
    write(store,
          frameKey(frame.identity.did, frame.sessionToken.sequenceNumber), frame)

\* registry.ts, receiveMessages lines 263-265: the clearing of a queue that
\* is not empty, after the stages that precede it
clearStage(store, queues, did, clear) ==
    IF clear /\ Len(transportReceiveMessages(queues, did)) > 0
    THEN <<Stage("queue", store, clearMessages(queues, did))>>
    ELSE <<>>

\* registry.ts, updateHomeRecord lines 109-121: one write if the record exists
homeStage(store, queues, did, updates, t) ==
    IF readHomeRecord(store, did) = <<>>
    THEN <<>>
    ELSE <<Stage("hlr", updateHomeRecord(store, did, updates, t), queues)>>

\* wake, lines 84-213: the writes of the path the call takes
wakeStages(store, queues, identity, node, token, t) ==
    LET did == identity.did
        vlr == readVisitorRecord(store, node.nodeId, did)
        hlr == readHomeRecord(store, did)
    IN  IF vlr # <<>> /\ ~isTokenExpired(vlr[1].sessionToken, t)
        THEN LET cleared == clearStage(store, queues, did, TRUE)
                 q1 == receiveMessagesEffect(queues, did, TRUE)
             IN  cleared \o
                 <<Stage("vlr", touchVisitorRecord(store, node.nodeId, did, t), q1)>>
        ELSE IF hlr # <<>>
        THEN LET latestFrame == readLatestFrame(store, did)
                 bootCount == incrementBootResult(store, did)
                 s1 == incrementBoot(store, did, t)
                 sessionToken ==
                     createSessionToken(token, t, did, node.nodeId,
                                        wakeSequenceNumber(hlr[1], latestFrame))
                 frame == wakeBootFrame(identity, node, hlr[1], latestFrame,
                                        bootCount, sessionToken, t)
                 s2 == writeArchive(s1, frame)
                 s3 == writeFrame(s1, frame)
                 visitor == createVisitorRecord(did, sessionToken, frame,
                                                hlr[1].homeNodeId = node.nodeId, t)
                 s4 == writeVisitorRecord(s3, node.nodeId, visitor)
                 updates == [currentNodeId |-> node.nodeId,
                             lastCapsuleHash |-> frame.frameHash]
                 s5 == updateHomeRecord(s4, did, updates, t)
             IN  <<Stage("hlr", s1, queues), Stage("frame", s2, queues),
                   Stage("frame", s3, queues), Stage("vlr", s4, queues)>>
                 \o homeStage(s4, queues, did, updates, t)
                 \o clearStage(s5, queues, did, TRUE)
        ELSE LET homeRecord ==
                     Merge(createHomeRecord(identity, node.nodeId, t), [bootCount |-> 1])
                 s1 == writeHomeRecord(store, homeRecord)
                 frame == genesisFrame(identity, node, token, t)
                 s2 == writeArchive(s1, frame)
                 s3 == writeFrame(s1, frame)
                 visitor == createVisitorRecord(did, frame.sessionToken, frame, TRUE, t)
                 s4 == writeVisitorRecord(s3, node.nodeId, visitor)
             IN  <<Stage("hlr", s1, queues), Stage("frame", s2, queues),
                   Stage("frame", s3, queues), Stage("vlr", s4, queues)>>

\* handoff, lines 244-277
handoffStages(store, queues, currentFrame, node, updates, token, t) ==
    LET did == currentFrame.identity.did
        frame == handoffFrame(currentFrame, node, updates, token, t)
        s1 == writeArchive(store, frame)
        s2 == writeFrame(store, frame)
        s3 == writeVisitorRecord(s2, node.nodeId,
                                 handoffVisitor(s2, currentFrame, node, frame, t))
    IN  <<Stage("frame", s1, queues), Stage("frame", s2, queues),
          Stage("vlr", s3, queues)>>
        \o homeStage(s3, queues, did, handoffHomeUpdates(frame), t)

\* roam, lines 302-349
roamStages(store, queues, currentFrame, homeNode, visitedNode, token, t) ==
    LET did == currentFrame.identity.did
        sessionToken ==
            createSessionToken(token, t, did, visitedNode.nodeId,
                               currentFrame.sessionToken.sequenceNumber + 1)
        roamFrame == movedFrame("roam", currentFrame, visitedNode, sessionToken, t)
        s1 == writeArchive(store, roamFrame)
        s2 == writeFrame(store, roamFrame)
        visitor == createVisitorRecord(did, sessionToken, roamFrame, FALSE, t)
        s3 == writeVisitorRecord(s2, visitedNode.nodeId, visitor)
    IN  <<Stage("frame", s1, queues), Stage("frame", s2, queues),
          Stage("vlr", s3, queues)>>
        \o homeStage(s3, queues, did,
                     [currentNodeId |-> visitedNode.nodeId,
                      lastCapsuleHash |-> roamFrame.frameHash], t)

\* home, lines 373-421
homeStages(store, queues, currentFrame, homeNode, foreignNodeId, token, t) ==
    LET did == currentFrame.identity.did
        s1 == deleteVisitorRecord(store, foreignNodeId, did)
        sessionToken ==
            createSessionToken(token, t, did, homeNode.nodeId,
                               currentFrame.sessionToken.sequenceNumber + 1)
        homeFrame == movedFrame("home", currentFrame, homeNode, sessionToken, t)
        s2 == writeArchive(s1, homeFrame)
        s3 == writeFrame(s1, homeFrame)
        visitor == createVisitorRecord(did, sessionToken, homeFrame, TRUE, t)
        s4 == writeVisitorRecord(s3, homeNode.nodeId, visitor)
        updates == [currentNodeId |-> homeNode.nodeId,
                    lastCapsuleHash |-> homeFrame.frameHash]
        s5 == updateHomeRecord(s4, did, updates, t)
    IN  <<Stage("vlr", s1, queues), Stage("frame", s2, queues),
          Stage("frame", s3, queues), Stage("vlr", s4, queues)>>
        \o homeStage(s4, queues, did, updates, t)
        \o clearStage(s5, queues, did, TRUE)

\* A call of operation call for identity did at node nodeId stops after cut
\* of its stages; the caller gets no result and holds no frame afterwards.
Interrupted(call, did, nodeId, stages, cut) ==
    /\ CanCall
    /\ nops' = nops + 1
    /\ frames' = IF cut = 0 THEN frames ELSE stages[cut].frames
    /\ messages' = IF cut = 0 THEN messages ELSE stages[cut].messages
    /\ rnd' = rnd + 1
    /\ res' = [op |-> "interrupted",
               call |-> call,
               did |-> did,
               node |-> nodeId,
               written |-> [i \in 1..cut |-> stages[i].register]]
    /\ cur' = <<>>
    /\ UNCHANGED <<now, nenv>>
    /\ NoCapsule

WakeInterrupted(identity, node) ==
    LET stages == wakeStages(frames, messages, identity, node, rnd, now)
    IN  \E cut \in 0..Len(stages) :
            Interrupted("wake", identity.did, node.nodeId, stages, cut)

HandoffInterrupted(currentFrame, node, updates) ==
    LET stages == handoffStages(frames, messages, currentFrame, node, updates, rnd, now)
    IN  \E cut \in 0..Len(stages) :
            Interrupted("handoff", currentFrame.identity.did, node.nodeId, stages, cut)

RoamInterrupted(currentFrame, homeNode, visitedNode) ==
    LET stages == roamStages(frames, messages, currentFrame, homeNode, visitedNode,
                             rnd, now)
    IN  \E cut \in 0..Len(stages) :
            Interrupted("roam", currentFrame.identity.did, visitedNode.nodeId,
                        stages, cut)

HomeInterrupted(currentFrame, homeNode, foreignNodeId) ==
    LET stages == homeStages(frames, messages, currentFrame, homeNode, foreignNodeId,
                             rnd, now)
    IN  \E cut \in 0..Len(stages) :
            Interrupted("home", currentFrame.identity.did, homeNode.nodeId,
                        stages, cut)

NextCrash ==
    \/ \E d \in DIDs, n \in NodeIds : Wake(Identity(d), Node(n))
    \/ \E n \in NodeIds, i \in 1..Len(UpdatesList) :
            cur # <<>> /\ Handoff(cur[1], Node(n), UpdatesList[i])
    \/ \E d \in DIDs : QueueMessage(d)
    \/ \E d \in DIDs, n \in NodeIds : WakeInterrupted(Identity(d), Node(n))
    \/ \E n \in NodeIds, i \in 1..Len(UpdatesList) :
            cur # <<>> /\ HandoffInterrupted(cur[1], Node(n), UpdatesList[i])
    \/ \E h \in NodeIds, v \in NodeIds :
            cur # <<>> /\ RoamInterrupted(cur[1], Node(h), Node(v))
    \/ \E h \in NodeIds, f \in NodeIds :
            cur # <<>> /\ HomeInterrupted(cur[1], Node(h), f)

SpecCrash == Init /\ [][NextCrash]_vars

-----------------------------------------------------------------------------
(* A session kept alive: wake and keepalive calls of the single writer     *)
(* with a clock that advances by half the session TTL, so that keepalive   *)
(* can be called at intervals shorter than the TTL.                        *)

MaxHalfTicks == 3

HalfTick ==
    /\ now < MaxHalfTicks * ((DEFAULT_SESSION_TTL_SECONDS * 1000) \div 2)
    /\ now' = now + (DEFAULT_SESSION_TTL_SECONDS * 1000) \div 2
    /\ UNCHANGED <<frames, messages, rnd, cur, res, nops, nenv>>
    /\ NoCapsule

NextKeepalive ==
    \/ \E d \in DIDs, n \in NodeIds : Wake(Identity(d), Node(n))
    \/ \E n \in NodeIds : cur # <<>> /\ Keepalive(cur[1], Node(n))
    \/ HalfTick

SpecKeepalive == Init /\ [][NextKeepalive]_vars

-----------------------------------------------------------------------------
(* Properties of the protocol under Spec *)

\* A step that is one protocol call op of identity d at node n
Called(op, d, n) ==
    /\ nops' = nops + 1
    /\ res'.op = op
    /\ res'.did = d
    /\ res'.node = n

SeqBound == MaxSteps + 2

\* Every key the registry can use for identity d
KeysOf(d) ==
    {hlrKey(d), latestKey(d)}
        \cup {vlrKey(n, d) : n \in NodeIds}
        \cup {frameKey(d, q) : q \in 0..SeqBound}

ArchiveKeys(d) == {frameKey(d, q) : q \in 0..SeqBound}

\* The lifecycle fields a frame carries from session to session
Lifecycle(frame) ==
    [stage |-> frame.stage,
     continuityState |-> frame.continuityState,
     continuityScore |-> frame.continuityScore,
     level |-> frame.level,
     coreValues |-> frame.coreValues,
     coreInterests |-> frame.coreInterests,
     recentThemes |-> frame.recentThemes,
     openThreads |-> frame.openThreads,
     priorities |-> frame.priorities]

\* C1: when a VisitorRecord with a non-expired session token is stored at node
\* n for the identity, wake at n succeeds with restoreMethod "vlr" and the
\* VLR's cached capsule as its frame, and writes no frame: the set of keys and
\* every stored record are as before, except the lastActivity of that VLR.
C1_VlrFastPath ==
    [][\A d \in DIDs, n \in NodeIds :
        LET vlr == readVisitorRecord(frames, n, d)
        IN  (/\ vlr # <<>>
             /\ ~(vlr[1].sessionToken.expiresAt < now)
             /\ Called("wake", d, n))
            => /\ res'.success
               /\ res'.restoreMethod = "vlr"
               /\ res'.frame = vlr[1].capsule
               /\ res'.sessionToken = vlr[1].sessionToken
               /\ DOMAIN frames' = DOMAIN frames
               /\ \A k \in DOMAIN frames \ {vlrKey(n, d)} : frames'[k] = frames[k]
               /\ frames'[vlrKey(n, d)] =
                      [vlr[1] EXCEPT !.lastActivity = frames'[vlrKey(n, d)].lastActivity]
               /\ frames'[vlrKey(n, d)].lastActivity = now]_vars

\* C1 witness: a fast-path wake made after the clock has advanced, on a VLR
\* whose token is at the last instant of its validity.
C1_Witness ==
    /\ res.op = "wake"
    /\ res.restoreMethod = "vlr"
    /\ res.sessionToken.expiresAt = now
    /\ now > 0

\* C2: after a handoff at node n, with the VLR at n gone and the HomeRecord
\* and the latest frame in place, wake at n succeeds with restoreMethod
\* "capsule" and a new boot frame whose lifecycle fields are those of the
\* frame the handoff wrote, whatever the updates were.
C2_FallbackChain ==
    [][\A d \in DIDs, n \in NodeIds :
        (/\ res.op = "handoff"
         /\ res.did = d
         /\ res.node = n
         /\ ~exists(frames, vlrKey(n, d))
         /\ exists(frames, hlrKey(d))
         /\ exists(frames, latestKey(d))
         /\ Called("wake", d, n))
        => /\ res'.success
           /\ res'.restoreMethod = "capsule"
           /\ res'.frame.frameType = "boot"
           /\ res'.frame # res.frame
           /\ frames'[latestKey(d)] = res'.frame
           /\ Lifecycle(res'.frame) = Lifecycle(res.frame)]_vars

\* C2 witness: wake, handoff with all nine fields updated, the VLR deleted,
\* and the wake that restores from the capsule.
C2_Witness ==
    /\ res.op = "wake"
    /\ res.restoreMethod = "capsule"
    /\ res.frame.parentHash # ZeroHash
    /\ res.frame.parentHash[1].frameType = "handoff"
    /\ res.frame.parentHash[1].node.nodeId = res.node
    /\ res.frame.recentThemes = <<"sovereignty">>
    /\ res.frame.stage = "growing"
    /\ nenv = 1

\* C3: wake on a store that holds no record of the identity succeeds with
\* restoreMethod "genesis" and continuityScore 0 and leaves exactly four
\* records of it: the HomeRecord (bootCount 1, home at the waking node), the
\* genesis boot frame (bootCount 1, stage void, sequence 1, zero parentHash)
\* as archive entry 1 and as latest, and a home VLR at the waking node.
C3_Genesis ==
    [][\A d \in DIDs, n \in NodeIds :
        (/\ KeysOf(d) \cap DOMAIN frames = {}
         /\ Called("wake", d, n))
        => /\ res'.success
           /\ res'.restoreMethod = "genesis"
           /\ res'.continuityScore = 0
           /\ KeysOf(d) \cap DOMAIN frames' =
                  {hlrKey(d), frameKey(d, 1), latestKey(d), vlrKey(n, d)}
           /\ frames'[hlrKey(d)].bootCount = 1
           /\ frames'[hlrKey(d)].homeNodeId = n
           /\ frames'[hlrKey(d)].identity = Identity(d)
           /\ frames'[frameKey(d, 1)] = frames'[latestKey(d)]
           /\ frames'[latestKey(d)] = res'.frame
           /\ res'.frame.frameType = "boot"
           /\ res'.frame.bootCount = 1
           /\ res'.frame.stage = "void"
           /\ res'.frame.sessionToken.sequenceNumber = 1
           /\ res'.frame.parentHash = ZeroHash
           /\ frames'[vlrKey(n, d)].isHome = TRUE
           /\ frames'[vlrKey(n, d)].capsule = res'.frame]_vars

\* C3 witness: the first wake has created the identity.
C3_Witness ==
    /\ res.op = "wake"
    /\ res.restoreMethod = "genesis"
    /\ nops = 1
    /\ Cardinality(DOMAIN frames) = 4

\* C4: a home call with distinct home and foreign nodes leaves no VLR at the
\* foreign node, a VLR with isHome at the home node and the HomeRecord's
\* currentNodeId at the home node, and returns every message that was queued
\* for the identity when it was called.
C4_RoamHomeRoundTrip ==
    [][\A d \in DIDs, h \in NodeIds, f \in NodeIds :
        (/\ h # f
         /\ Called("home", d, h)
         /\ res'.foreignNodeId = f)
        => /\ res'.success
           /\ ~exists(frames', vlrKey(f, d))
           /\ exists(frames', vlrKey(h, d))
           /\ frames'[vlrKey(h, d)].isHome = TRUE
           /\ exists(frames', hlrKey(d))
           /\ frames'[hlrKey(d)].currentNodeId = h
           /\ LET queue == IF d \in DOMAIN messages THEN messages[d] ELSE <<>>
              IN  \A i \in 1..Len(queue) :
                     \E j \in 1..Len(res'.pendingMessages) :
                         res'.pendingMessages[j] = queue[i]]_vars

\* C4 witness: wake at the home node, roam to the other node, a message
\* queued while roaming, and the home call that returns it.
C4_Witness ==
    /\ res.op = "home"
    /\ nops = 3
    /\ res.node # res.foreignNodeId
    /\ frames[hlrKey(res.did)].homeNodeId = res.node
    /\ res.frame.parentHash[1].frameType = "roam"
    /\ res.frame.parentHash[1].node.nodeId = res.foreignNodeId
    /\ res.frame.parentHash[1].parentHash[1].parentHash = ZeroHash
    /\ Len(res.pendingMessages) = 1
    /\ res.pendingMessages[1].createdAt = res.frame.parentHash[1].createdAt

\* The latest frame of identity d in a store, and its sequence number
LatestSeq(store, d) == store[latestKey(d)].sessionToken.sequenceNumber

\* C7: under a single writer that passes on the frame it was last given, the
\* sequence number of the latest frame never decreases; a deep-path wake, a
\* handoff, a roam and a home write the previous latest sequence number plus
\* one, and a keepalive leaves it as it was.
C7_SequenceMonotone ==
    [][\A d \in DIDs :
        (exists(frames, latestKey(d)) /\ exists(frames', latestKey(d)))
        => /\ LatestSeq(frames', d) >= LatestSeq(frames, d)
           /\ (/\ nops' = nops + 1
               /\ res'.did = d
               /\ \/ res'.op \in {"handoff", "roam", "home"}
                  \/ res'.op = "wake" /\ res'.restoreMethod \in {"capsule", "hlr"})
              => LatestSeq(frames', d) = LatestSeq(frames, d) + 1
           /\ (nops' = nops + 1 /\ res'.did = d /\ res'.op = "keepalive")
              => LatestSeq(frames', d) = LatestSeq(frames, d)]_vars

\* C8: an archived frame is never overwritten or removed: every record
\* stored under a key frame:{did}:{seq} is stored there unchanged after
\* every later step.
C8_ArchiveAppendOnly ==
    [][\A d \in DIDs :
        \A k \in ArchiveKeys(d) \cap DOMAIN frames :
            k \in DOMAIN frames' /\ frames'[k] = frames[k]]_vars

\* C9: a handoff at node n for an identity that has a HomeRecord leaves the
\* new frame as the latest frame and in the archive under its sequence
\* number, as the capsule of the VLR at n, and its lifecycle fields and its
\* hash in the HomeRecord; and the wake at n that follows the handoff takes
\* the VLR path or the capsule path and returns the lifecycle fields of the
\* handoff frame.
C9_HandoffComplete ==
    [][\A d \in DIDs, n \in NodeIds :
        /\ (exists(frames, hlrKey(d)) /\ Called("handoff", d, n))
           => LET frame == res'.frame
                  hlr == frames'[hlrKey(d)]
              IN  /\ res'.success
                  /\ frame.frameType = "handoff"
                  /\ frames'[latestKey(d)] = frame
                  /\ frames'[frameKey(d, frame.sessionToken.sequenceNumber)] = frame
                  /\ exists(frames', vlrKey(n, d))
                  /\ frames'[vlrKey(n, d)].capsule = frame
                  /\ hlr.stage = frame.stage
                  /\ hlr.continuityState = frame.continuityState
                  /\ hlr.continuityScore = frame.continuityScore
                  /\ hlr.level = frame.level
                  /\ hlr.coreValues = frame.coreValues
                  /\ hlr.coreInterests = frame.coreInterests
                  /\ hlr.lastCapsuleHash = frame.frameHash
        /\ (/\ res.op = "handoff"
            /\ res.did = d
            /\ res.node = n
            /\ exists(frames, hlrKey(d))
            /\ Called("wake", d, n))
           => /\ res'.success
              /\ res'.restoreMethod \in {"vlr", "capsule"}
              /\ Lifecycle(res'.frame) = Lifecycle(res.frame)
              /\ res'.restoreMethod = "vlr" => res'.frame = res.frame
              /\ res'.restoreMethod = "capsule"
                     => res'.frame.parentHash = res.frame.frameHash]_vars

\* C9 witness: a handoff that changed the lifecycle fields, the VLR of its
\* node gone, and the wake at the same node that restores them from the
\* handoff frame.
C9_Witness ==
    /\ res.op = "wake"
    /\ res.restoreMethod = "capsule"
    /\ res.frame.parentHash # ZeroHash
    /\ res.frame.parentHash[1].frameType = "handoff"
    /\ res.frame.parentHash[1].node.nodeId = res.node
    /\ res.frame.stage = "nascent"
    /\ frames[hlrKey(res.did)].stage = "nascent"

\* The boot counter of the HomeRecord of identity d in a store
BootCount(store, d) == store[hlrKey(d)].bootCount

\* C10: the HomeRecord's bootCount is 1 after genesis, one more after every
\* deep-path wake, whose boot frame carries the new value, and unchanged by
\* every other step; a handoff frame carries the bootCount of the frame it
\* was built from.
C10_BootCount ==
    [][\A d \in DIDs :
        /\ (nops' = nops + 1 /\ res'.did = d /\ res'.op = "wake"
                /\ res'.restoreMethod = "genesis")
           => BootCount(frames', d) = 1
        /\ (nops' = nops + 1 /\ res'.did = d /\ res'.op = "wake"
                /\ res'.restoreMethod \in {"capsule", "hlr"})
           => /\ BootCount(frames', d) = BootCount(frames, d) + 1
              /\ res'.frame.frameType = "boot"
              /\ res'.frame.bootCount = BootCount(frames', d)
        /\ (/\ exists(frames, hlrKey(d))
            /\ ~(nops' = nops + 1 /\ res'.op = "wake" /\ res'.restoreMethod # "vlr"))
           => /\ exists(frames', hlrKey(d))
              /\ BootCount(frames', d) = BootCount(frames, d)
        /\ (nops' = nops + 1 /\ res'.did = d /\ res'.op = "handoff")
           => res'.frame.bootCount = cur[1].bootCount]_vars

\* C10 witness: the second deep-path wake of an identity, with a handoff
\* in between: the HomeRecord counts three boots.
C10_Witness ==
    /\ res.op = "wake"
    /\ res.restoreMethod = "capsule"
    /\ res.frame.bootCount = 3
    /\ frames[hlrKey(res.did)].bootCount = 3

\* C11: a wake by the VLR path or the HLR path and a home return the whole
\* queue of the identity as it is when they are called and leave that queue
\* empty; a keepalive returns the whole queue and leaves every queue as it
\* was.
C11_MessageDraining ==
    [][\A d \in DIDs :
        /\ (/\ nops' = nops + 1
            /\ res'.did = d
            /\ \/ res'.op = "home"
               \/ res'.op = "wake" /\ res'.restoreMethod \in {"vlr", "capsule", "hlr"})
           => /\ res'.pendingMessages = transportReceiveMessages(messages, d)
              /\ transportReceiveMessages(messages', d) = <<>>
        /\ (nops' = nops + 1 /\ res'.did = d /\ res'.op = "keepalive")
           => /\ res'.newMessages = transportReceiveMessages(messages, d)
              /\ messages' = messages]_vars

\* C11 witness: two messages were queued for an identity with a valid VLR,
\* and the wake after them returned both and emptied the queue.
C11_Witness ==
    /\ res.op = "wake"
    /\ res.restoreMethod = "vlr"
    /\ Len(res.pendingMessages) = 2
    /\ transportReceiveMessages(messages, res.did) = <<>>

\* The VLR stored at node n for identity d holds an expired session token
ExpiredVlr(d, n) ==
    /\ exists(frames, vlrKey(n, d))
    /\ frames[vlrKey(n, d)].sessionToken.expiresAt < now

C14_HandoffWithoutVlr ==
    [][\A d \in DIDs, n \in NodeIds :
        Called("handoff", d, n)
        => IF exists(frames, vlrKey(n, d))
           THEN /\ res'.success
                /\ res'.warnings = <<>>
           ELSE /\ res'.success
                /\ Len(res'.warnings) = 1
                /\ res'.frame.frameType = "handoff"
                /\ frames'[latestKey(d)] = res'.frame
                /\ frames'[frameKey(d, res'.frame.sessionToken.sequenceNumber)]
                       = res'.frame
                /\ exists(frames', vlrKey(n, d))
                /\ frames'[vlrKey(n, d)].capsule = res'.frame
                /\ frames'[vlrKey(n, d)].sessionToken = res'.frame.sessionToken
                /\ frames'[vlrKey(n, d)].did = d]_vars

\* C14 witness: a handoff at a node the identity never woke at.
C14_Witness ==
    /\ res.op = "handoff"
    /\ Len(res.warnings) = 1
    /\ frames[vlrKey(res.node, res.did)].capsule = res.frame
    /\ res.frame.sessionToken.nodeId = res.node
    /\ res.frame.parentHash[1].node.nodeId # res.node

\* C19: a HomeRecord that exists is there after every step with the
\* identity, homeNodeId and createdAt it had; the genesis path of wake is
\* taken exactly when the identity has no HomeRecord and the node no valid
\* VLR, and then creates the record.
C19_HomeRecordPermanent ==
    [][\A d \in DIDs :
        /\ exists(frames, hlrKey(d))
           => /\ exists(frames', hlrKey(d))
              /\ frames'[hlrKey(d)].identity = frames[hlrKey(d)].identity
              /\ frames'[hlrKey(d)].homeNodeId = frames[hlrKey(d)].homeNodeId
              /\ frames'[hlrKey(d)].createdAt = frames[hlrKey(d)].createdAt
        /\ (nops' = nops + 1 /\ res'.did = d /\ res'.op = "wake"
                /\ res'.restoreMethod = "genesis")
           => /\ ~exists(frames, hlrKey(d))
              /\ exists(frames', hlrKey(d))
              /\ frames'[hlrKey(d)].identity = Identity(d)
              /\ frames'[hlrKey(d)].homeNodeId = res'.node
              /\ frames'[hlrKey(d)].createdAt = now
        /\ (nops' = nops + 1 /\ res'.did = d /\ res'.op = "wake"
                /\ exists(frames, hlrKey(d)))
           => res'.restoreMethod # "genesis"]_vars

\* C19 witness: a HomeRecord created at time 0 at one node, after a later
\* roam to the other node and a handoff there.
C19_Witness ==
    /\ res.op = "handoff"
    /\ exists(frames, hlrKey(res.did))
    /\ frames[hlrKey(res.did)].createdAt = 0
    /\ frames[hlrKey(res.did)].updatedAt > 0
    /\ "currentNodeId" \in DOMAIN frames[hlrKey(res.did)]
    /\ frames[hlrKey(res.did)].currentNodeId # frames[hlrKey(res.did)].homeNodeId

\* A step that is one protocol call of identity d that writes a frame
WroteFrame(d) ==
    /\ nops' = nops + 1
    /\ res'.did = d
    /\ \/ res'.op \in {"handoff", "roam", "home", "keepalive"}
       \/ res'.op = "wake" /\ res'.restoreMethod # "vlr"

\* C23: the stored frames of an identity form one chain: whenever a call of
\* the single writer puts a frame at latest:{did} where a latest frame was
\* stored before, the parentHash of the new latest frame is the frameHash of
\* the frame that was the latest one immediately before the call.
C23_SingleChain ==
    [][\A d \in DIDs :
        (WroteFrame(d) /\ exists(frames, latestKey(d)))
        => frames'[latestKey(d)].parentHash = frames[latestKey(d)].frameHash]_vars

\* C24: after every completed call that writes a frame for an identity that
\* has a HomeRecord, the lastCapsuleHash of the HomeRecord is the frameHash
\* of the frame stored at latest:{did}.
C24_LastCapsuleHash ==
    [][\A d \in DIDs :
        (WroteFrame(d) /\ exists(frames', hlrKey(d)))
        => frames'[hlrKey(d)].lastCapsuleHash = frames'[latestKey(d)].frameHash]_vars

\* C28: the session token of every WakeResult (of wake and of home) is the
\* session token of the frame it returns, and the sessionToken of every
\* stored VisitorRecord is the session token of its capsule.
C28_TokenOfFrame ==
    /\ res.op \in {"wake", "home"} => res.sessionToken = res.frame.sessionToken
    /\ \A d \in DIDs, n \in NodeIds :
        exists(frames, vlrKey(n, d))
        => frames[vlrKey(n, d)].sessionToken
               = frames[vlrKey(n, d)].capsule.sessionToken

\* C29: the frame a wake returns is never older than the latest frame: its
\* sequence number is at least the sequence number of the frame that was
\* stored at latest:{did} when wake was called.
C29_WakeNotStale ==
    [][\A d \in DIDs, n \in NodeIds :
        (Called("wake", d, n) /\ exists(frames, latestKey(d)))
        => res'.frame.sessionToken.sequenceNumber >= LatestSeq(frames, d)]_vars

\* C30: a VisitorRecord stored at node n for an identity that has a
\* HomeRecord has isHome = TRUE exactly when n is the homeNodeId of the
\* HomeRecord.
C30_IsHomeAgrees ==
    \A d \in DIDs, n \in NodeIds :
        (exists(frames, vlrKey(n, d)) /\ exists(frames, hlrKey(d)))
        => (frames[vlrKey(n, d)].isHome <=> (n = frames[hlrKey(d)].homeNodeId))

-----------------------------------------------------------------------------
(* Properties of the protocol over a damaged store, under SpecTamper *)

\* The VLR stored at node n for identity d holds a token that is not expired
ValidVlr(d, n) ==
    /\ exists(frames, vlrKey(n, d))
    /\ ~(frames[vlrKey(n, d)].sessionToken.expiresAt < now)

\* C12: a wake that takes the HLR path while the stored frameHash of the
\* latest frame differs from the hash of its content succeeds with
\* restoreMethod "hlr" and a warning; its boot frame has the stage,
\* continuityState, continuityScore, level, coreValues and coreInterests of
\* the HomeRecord, the HomeRecord's lastCapsuleHash as parentHash, and empty
\* recentThemes, openThreads and priorities.
C12_IntegrityFallback ==
    [][\A d \in DIDs, n \in NodeIds :
        (/\ exists(frames, hlrKey(d))
         /\ exists(frames, latestKey(d))
         /\ frames[latestKey(d)].frameHash # computeFrameHash(frames[latestKey(d)])
         /\ ~ValidVlr(d, n)
         /\ Called("wake", d, n))
        => LET hlr == frames[hlrKey(d)]
               frame == res'.frame
           IN  /\ res'.success
               /\ res'.restoreMethod = "hlr"
               /\ Len(res'.warnings) >= 1
               /\ res'.warnings[Len(res'.warnings)] = "Frame hash verification failed"
               /\ frame.frameType = "boot"
               /\ frame.stage = hlr.stage
               /\ frame.continuityState = hlr.continuityState
               /\ frame.continuityScore = hlr.continuityScore
               /\ frame.level = hlr.level
               /\ frame.coreValues = hlr.coreValues
               /\ frame.coreInterests = hlr.coreInterests
               /\ frame.parentHash = hlr.lastCapsuleHash
               /\ frame.recentThemes = <<>>
               /\ frame.openThreads = <<>>
               /\ frame.priorities = <<>>
               /\ frames'[latestKey(d)] = frame]_vars

\* C12 witness: a handoff set the stage to growing and the recent themes,
\* the latest frame was then damaged, and the wake at the other node
\* restored the stage of the HomeRecord and no themes.
C12_Witness ==
    /\ res.op = "wake"
    /\ res.restoreMethod = "hlr"
    /\ res.warnings = <<"Frame hash verification failed">>
    /\ res.frame.stage = "growing"
    /\ res.frame.recentThemes = <<>>
    /\ res.frame.parentHash # ZeroHash
    /\ res.frame.parentHash[1].recentThemes = <<"sovereignty">>

-----------------------------------------------------------------------------
(* Properties of the protocol called with a detached frame, under          *)
(* SpecDetached                                                            *)

C25_GenesisLastResort ==
    [][\A d \in DIDs, n \in NodeIds :
        (Called("wake", d, n) /\ res'.restoreMethod = "genesis")
        => /\ ~exists(frames, hlrKey(d))
           /\ ~exists(frames, latestKey(d))]_vars

-----------------------------------------------------------------------------
(* Properties of interrupted calls, under SpecCrash *)

\* The place of a register in the required order of writes
WriteOrder(register) ==
    CASE register = "frame" -> 1
      [] register = "vlr" -> 2
      [] register = "hlr" -> 3
      [] OTHER -> 4

\* C21: within one wake, handoff, roam or home call the writes are ordered
\* frame, then VLR, then HLR: of the writes a call has made when it stops,
\* no write or delete of a VisitorRecord comes before a write of the frame
\* and no write of the HomeRecord comes before a write of the frame or of a
\* VisitorRecord.
C21_WriteOrder ==
    res.op = "interrupted"
    => \A i \in 1..Len(res.written) : \A j \in i..Len(res.written) :
          WriteOrder(res.written[i]) <= WriteOrder(res.written[j])

\* C22: crash recovery: the wake for the same identity at the same node that
\* follows an interrupted wake, handoff, roam or home succeeds and returns
\* the lifecycle fields of the latest frame in the store, the most recent
\* frame whose write was completed before the interruption.
C22_CrashRecovery ==
    [][\A d \in DIDs, n \in NodeIds :
        (/\ Called("wake", d, n)
         /\ res.op = "interrupted" /\ res.did = d /\ res.node = n)
        => /\ res'.success
           /\ exists(frames, latestKey(d))
              => Lifecycle(res'.frame) = Lifecycle(frames[latestKey(d)])]_vars

-----------------------------------------------------------------------------
(* Properties of a session kept alive, under SpecKeepalive *)

\* C26: keepalive prevents the VLR from expiring: a wake at node n that
\* follows, by less than the session TTL, a keepalive for the identity at n
\* that was made while the session token of the VisitorRecord at n had not
\* expired, takes the VLR fast path.
C26_KeepaliveRenews ==
    [][\A d \in DIDs, n \in NodeIds :
        (/\ Called("wake", d, n)
         /\ res.op = "keepalive" /\ res.did = d /\ res.node = n /\ res.alive
         /\ exists(frames, vlrKey(n, d))
         /\ res.lastActivity <= frames[vlrKey(n, d)].sessionToken.expiresAt
         /\ now - res.lastActivity < DEFAULT_SESSION_TTL_SECONDS * 1000)
        => res'.restoreMethod = "vlr"]_vars

-----------------------------------------------------------------------------
(* Properties of the two message queues under SpecFile *)

\* C17: for both transports, receiveMessages returns the messages sent to
\* a DID since its queue was last cleared, in the order of the sends.
C17_QueueOrder ==
    \A d \in DIDs :
        /\ transportReceiveMessages(messages, d) = Sent(d)
        /\ fileReceiveMessages(files, d) = Sent(d)

-----------------------------------------------------------------------------
(* Properties of two concurrent wake calls, under SpecRace *)

\* Both calls have returned, and both by the deep path
BothDeep ==
    \A p \in Procs :
        /\ procs[p].pc = "done"
        /\ procs[p].result[1].restoreMethod # "vlr"

\* The boot frame returned to process p
Returned(p) == procs[p].result[1].frame

\* C16: no wake call reports an error, whatever the interleaving: each
\* returns success with no warning but that of the expired VLR.  When both
\* calls took the deep path, the bootCount of the HomeRecord, 1 before, is 2
\* or 3 after, and it is 2 whenever both boot frames carry the same
\* bootCount; two boot frames of one sequence number are different frames
\* of which the archive keeps one.
C16_SilentLostUpdate ==
    /\ \A p \in Procs :
          procs[p].pc = "done"
          => /\ procs[p].result[1].success
             /\ \A i \in 1..Len(procs[p].result[1].warnings) :
                   procs[p].result[1].warnings[i] =
                       "VLR session expired, falling through to HLR"
    /\ BothDeep
       => /\ BootCount(frames, RaceDid) \in {2, 3}
          /\ Returned("p1").bootCount = Returned("p2").bootCount
             => BootCount(frames, RaceDid) = 2
          /\ Returned("p1").sessionToken.sequenceNumber =
                 Returned("p2").sessionToken.sequenceNumber
             => /\ Returned("p1") # Returned("p2")
                /\ readFrame(frames, RaceDid, Returned("p1").sessionToken.sequenceNumber)
                       \in {<<Returned("p1")>>, <<Returned("p2")>>}

\* C16 witness: both calls returned success by the deep path, the bootCount
\* went from 1 to 2 only, both boot frames carry sequence number 2, and the
\* archive holds the frame of p2 in slot 2 and the frame of p1 nowhere.
C16_Witness ==
    /\ BothDeep
    /\ procs["p1"].result[1].success
    /\ procs["p2"].result[1].success
    /\ BootCount(frames, RaceDid) = 2
    /\ Returned("p1").sessionToken.sequenceNumber = 2
    /\ Returned("p2").sessionToken.sequenceNumber = 2
    /\ readFrame(frames, RaceDid, 2) = <<Returned("p2")>>
    /\ \A k \in ArchiveKeys(RaceDid) \cap DOMAIN frames : frames[k] # Returned("p1")

-----------------------------------------------------------------------------
(* Properties of wake calls with an interleaved sender, under SpecSend *)

\* The elements of a sequence
Range(s) == {s[i] : i \in 1..Len(s)}

\* C27: no queued message is lost undelivered: a message that was queued for
\* the identity and is no longer in its queue has been read by a wake call,
\* which returns it in pendingMessages.
C27_NoMessageLost ==
    \A message \in Range(Sent(RaceDid)) :
        \/ message \in Range(transportReceiveMessages(messages, RaceDid))
        \/ \E p \in Procs : message \in Range(procs[p].messages)

-----------------------------------------------------------------------------
(* Properties of the registry under SpecRegistry *)

\* C18: updateHomeRecord on a stored HomeRecord writes and returns the old
\* record with the fields of updates replaced, except that identity and
\* createdAt keep their stored values and updatedAt is the time of the
\* call, and changes no other key; without a stored HomeRecord it returns
\* null and leaves the store as it was.
C18_UpdateHomeRecord ==
    [][\A d \in AllDIDs :
        (nops' = nops + 1 /\ res'.op = "updateHomeRecord" /\ res'.did = d)
        => IF exists(frames, hlrKey(d))
           THEN LET old == frames[hlrKey(d)]
                    new == frames'[hlrKey(d)]
                    u == res'.updates
                IN  /\ DOMAIN frames' = DOMAIN frames
                    /\ \A k \in DOMAIN frames \ {hlrKey(d)} : frames'[k] = frames[k]
                    /\ res'.returned = <<new>>
                    /\ DOMAIN new = DOMAIN old \cup DOMAIN u
                    /\ new.identity = old.identity
                    /\ new.createdAt = old.createdAt
                    /\ new.updatedAt = now
                    /\ \A f \in DOMAIN new \ {"identity", "createdAt", "updatedAt"} :
                          new[f] = IF f \in DOMAIN u THEN u[f] ELSE old[f]
           ELSE /\ res'.returned = <<>>
                /\ frames' = frames]_vars

\* C18 witness: an update naming identity, createdAt and updatedAt was
\* applied after the clock had advanced; the record keeps its identity and
\* createdAt, has the time of the call as updatedAt and the stage of the
\* update.
C18_Witness ==
    /\ res.op = "updateHomeRecord"
    /\ "identity" \in DOMAIN res.updates
    /\ res.returned # <<>>
    /\ now > 0
    /\ res.returned[1].identity = Identity(res.did)
    /\ res.returned[1].createdAt = 0
    /\ res.returned[1].updatedAt = now
    /\ res.returned[1].stage = "nascent"
    /\ frames[hlrKey(res.did)] = res.returned[1]

-----------------------------------------------------------------------------
(* Properties of two identities on one transport, under SpecMulti *)

\* C20: an operation of identity a changes no record and no queue of
\* another identity b, and every key it writes or deletes is a key of a; its
\* result is that of a alone: the frame it returns is a frame of a, the
\* messages it returns are the queue of a, and the path a wake takes is
\* decided by the HomeRecord and the VLR of a, so that the first wake of a
\* is a genesis with sequence number 1 and bootCount 1 whatever b has done.
C20_IdentitiesIndependent ==
    [][\A a \in AllDIDs : \A b \in AllDIDs \ {a} :
        (nops' = nops + 1 /\ res'.did = a)
        => /\ \A k \in KeysOf(b) :
                 /\ k \in DOMAIN frames' <=> k \in DOMAIN frames
                 /\ k \in DOMAIN frames => frames'[k] = frames[k]
           /\ b \in DOMAIN messages' <=> b \in DOMAIN messages
           /\ transportReceiveMessages(messages', b) = transportReceiveMessages(messages, b)
           /\ \A k \in DOMAIN frames \cup DOMAIN frames' :
                 (k \notin DOMAIN frames \/ k \notin DOMAIN frames' \/ frames'[k] # frames[k])
                 => k \in KeysOf(a)
           /\ res'.op \in {"wake", "home", "handoff"} => res'.frame.identity.did = a
           /\ res'.op = "roam" => res'.visitorRecord.capsule.identity.did = a
           /\ (res'.op = "home" \/ (res'.op = "wake" /\ res'.restoreMethod # "genesis"))
                 => res'.pendingMessages = transportReceiveMessages(messages, a)
           /\ res'.op = "keepalive"
                 => res'.newMessages = transportReceiveMessages(messages, a)
           /\ res'.op = "wake"
                 => /\ res'.restoreMethod = "vlr" <=> ValidVlr(a, res'.node)
                    /\ res'.restoreMethod = "genesis"
                          <=> (~ValidVlr(a, res'.node) /\ ~exists(frames, hlrKey(a)))
                    /\ res'.restoreMethod = "genesis"
                          => /\ res'.frame.sessionToken.sequenceNumber = 1
                             /\ res'.frame.bootCount = 1
                             /\ res'.frame.parentHash = ZeroHash]_vars

\* C20 witness: identity b woke and handed off on the node where identity
\* a had woken before and had a message queued; the records and the queue of
\* a are those of its genesis.
C20_Witness ==
    /\ res.op = "handoff"
    /\ res.did = "did:b"
    /\ exists(frames, vlrKey(res.node, "did:a"))
    /\ frames[latestKey("did:a")].sessionToken.sequenceNumber = 1
    /\ frames[hlrKey("did:a")].stage = "void"
    /\ frames[hlrKey("did:b")].stage = "nascent"
    /\ Len(transportReceiveMessages(messages, "did:a")) = 1
    /\ transportReceiveMessages(messages, "did:b") = <<>>

-----------------------------------------------------------------------------
(* Properties of the capsule functions under SpecCapsule *)

\* C5: in a chain built by genesisFrame and then handoffFrame on the frame
\* of the step before, the genesis frame has the zero parentHash, every later
\* frame has the frameHash of its predecessor as parentHash and its sequence
\* number plus one, and the frameHash values are pairwise distinct.
C5_ChainIntegrity ==
    /\ \A i \in 1..Len(chain) :
          IF i = 1
          THEN /\ chain[i].parentHash = ZeroHash
               /\ chain[i].sessionToken.sequenceNumber = 1
          ELSE /\ chain[i].parentHash = chain[i - 1].frameHash
               /\ chain[i].sessionToken.sequenceNumber =
                      chain[i - 1].sessionToken.sequenceNumber + 1
    /\ \A i \in 1..Len(chain), j \in 1..Len(chain) :
          i # j => chain[i].frameHash # chain[j].frameHash

\* C5 witness: a chain of three frames whose two handoff frames were built
\* with the same token, clock, node and updates.
C5_Witness ==
    /\ Len(chain) = 3
    /\ chain[2].sessionToken.token = chain[3].sessionToken.token
    /\ chain[2].createdAt = chain[3].createdAt
    /\ chain[2].node = chain[3].node
    /\ Lifecycle(chain[2]) = Lifecycle(chain[3])

\* C6: every built frame verifies, and a frame edited in any one field of
\* the wire shape other than frameHash and signature no longer verifies.
C6_TamperDetected ==
    /\ \A i \in 1..Len(chain) : verifyFrameHash(chain[i])
    /\ probe # <<>> => ~probe[1].verified

====
